---------------------------- MODULE Spec2Model ----------------------------
(***************************************************************************)
(* A model of github.com/tdewolff/locale: the fixed-point Amount           *)
(* arithmetic (currency.go), the locale fallback chain (util.go), the      *)
(* skeleton matcher and the interval formatter (datetime.go).              *)
(*                                                                         *)
(* Machine integers are modelled with a word of IntBits bits instead of    *)
(* 64: every int64 operation wraps modulo 2^IntBits exactly as Go wraps    *)
(* modulo 2^64, division truncates toward zero and the remainder takes     *)
(* the sign of the dividend.  MaxAmount is the largest positive word       *)
(* (1<<(IntBits-1) - 1) and int64Scales holds the powers of ten that fit   *)
(* in a word, as in the source.                                            *)
(*                                                                         *)
(* Text is a sequence of one-character strings.                            *)
(***************************************************************************)
EXTENDS Integers, Sequences, FiniteSets, TLC

VARIABLES
    a,      \* currency.go: the receiver Amount of the last call
    op,     \* the name of the last call ("init" before the first one)
    arg,    \* the argument of the last call
    res,    \* the Amount the last call returned
    err,    \* the error the last call returned ("" is nil)
    ret,    \* a scalar or text result of the last call (Compare, Equals, Value)
    loc,    \* util.go: the state of a locale resolution
    skel,   \* datetime.go: the state of a skeleton match
    ivl,    \* datetime.go: the state of an interval formatting
    call    \* the last call of a formatter or a scanner, with its result

vars == <<a, op, arg, res, err, ret, loc, skel, ivl, call>>

----------------------------------------------------------------------------
(* Machine words *)

\* The width of a machine word of the model (int64 and int in the source).
IntBits == 24

Pow2(n) == 2 ^ n

Pow10(n) == 10 ^ n

MinInt == -Pow2(IntBits - 1)

MaxInt == Pow2(IntBits - 1) - 1

\* Two's complement wrap-around of an exact integer into a word.
Wrap(x) == ((x + Pow2(IntBits - 1)) % Pow2(IntBits)) - Pow2(IntBits - 1)

AbsInt(x) == IF x < 0 THEN -x ELSE x

\* Go's x / y on words: truncated toward zero (MinInt / -1 wraps to MinInt).
Quot(x, y) ==
    LET q == AbsInt(x) \div AbsInt(y)
    IN  Wrap(IF (x < 0) # (y < 0) THEN -q ELSE q)

\* Go's x % y on words: the sign of the dividend.
Rem(x, y) ==
    LET r == AbsInt(x) % AbsInt(y)
    IN  IF x < 0 THEN -r ELSE r

\* Go's x * y on words, wrapping.  The factors are split into a low part of
\* 12 bits and a high part, so that no intermediate value leaves the range
\* of the model checker's integers (IntBits is at least 24):
\* x * y = xh*yh * 2^24 + (xh*yl + xl*yh) * 2^12 + xl*yl.
MulWrap(x, y) ==
    LET xl == x % 4096
        xh == (x - xl) \div 4096
        yl == y % 4096
        yh == (y - yl) \div 4096
        high == ((xh * yh) % Pow2(IntBits - 24)) * Pow2(24)
        mid == (((xh * yl) + (xl * yh)) % Pow2(IntBits - 12)) * Pow2(12)
    IN  Wrap(high + mid + (xl * yl))

----------------------------------------------------------------------------
(* currency.go: constants and tables *)

AmountPrecision == 3

MaxAmount == MaxInt

\* The largest index of int64Scales: the largest power of ten in a word.
MaxScale == CHOOSE i \in 0..IntBits : Pow10(i) <= MaxAmount /\ Pow10(i + 1) > MaxAmount

\* int64Scales[i]; an index outside the table panics (see the callers).
int64Scales(i) == Pow10(i)

ScaleOK(i) == i \in 0..MaxScale

\* The zero value of currency.Unit; it prints as "XXX".
ZeroUnit == "XXX"

\* The generated currency table: digits and rounding increment per ISO code.
\* The entries cover every increment NewAmount accepts (0, 10, 100) and one
\* it rejects (5).
currencies ==
    [EUR |-> [Digits |-> 2, Rounding |-> 0],
     JPY |-> [Digits |-> 0, Rounding |-> 0],
     XRB |-> [Digits |-> 2, Rounding |-> 10],
     XRC |-> [Digits |-> 2, Rounding |-> 100],
     XRD |-> [Digits |-> 2, Rounding |-> 5],
     DEFAULT |-> [Digits |-> 2, Rounding |-> 0]]

Units == {"EUR", "JPY", "XRB", "XRC", "XRD"}

GetCurrency(unit) ==
    IF unit \in DOMAIN currencies THEN currencies[unit] ELSE currencies["DEFAULT"]

Amt(unit, amount, digits, rounding) ==
    [Unit |-> unit, amount |-> amount, digits |-> digits, rounding |-> rounding]

ZeroAmount == Amt(ZeroUnit, 0, 0, 0)

\* A call's result: the Amount and the error ("" is nil).
Ret(val, e) == [val |-> val, err |-> e]

ErrOverflow == "overflow"

ErrUnderflow == "underflow"

ErrMismatch == "currencies don't match"

ErrRounding == "unsupported currency rounding"

ErrInvalid == "invalid amount"

Panic == "panic"

----------------------------------------------------------------------------
(* currency.go: rounding *)

bankersRounding(amount, prec) ==
    IF prec <= 0 THEN amount
    ELSE LET scale == int64Scales(prec)
             carry == Rem(Quot(amount, Quot(scale, 10)), 10)
             isEven == Rem(Quot(amount, scale), 2) = 0
             shift == IF carry = 5 THEN (IF ~isEven THEN scale ELSE 0)
                      ELSE IF 5 < carry THEN scale
                      ELSE 0
         IN  Wrap(amount + Wrap(-Rem(amount, scale) + shift))

\* Amount.round: the number of internal digits dropped for an increment
\* (-1: unexpected increment).
RoundPrec(incr) ==
    CASE incr \in {0, 1} -> AmountPrecision
      [] incr = 10 -> AmountPrecision + 1
      [] incr = 100 -> AmountPrecision + 2
      [] OTHER -> -1

round(x, incr) ==
    IF RoundPrec(incr) < 0 THEN Ret(ZeroAmount, "unexpected increment")
    ELSE Ret([x EXCEPT !.amount = bankersRounding(x.amount, RoundPrec(incr))], "")

Round(x) == round(x, x.rounding).val

Neg(x) == [x EXCEPT !.amount = Wrap(-x.amount)]

Abs(x) == IF x.amount < 0 THEN Neg(x) ELSE x

----------------------------------------------------------------------------
(* currency.go: construction *)

NewAmount(unit, amount, dec) ==
    LET cur == GetCurrency(unit)
        prec == cur.Digits + AmountPrecision
    IN  IF cur.Rounding \notin {0, 1, 10, 100} THEN Ret(ZeroAmount, ErrRounding)
        ELSE IF dec < prec THEN
            IF ~ScaleOK(prec - dec) THEN Ret(ZeroAmount, Panic)
            ELSE LET scale == int64Scales(prec - dec)
                 IN  IF Quot(MaxAmount, scale) < amount THEN Ret(ZeroAmount, ErrOverflow)
                     ELSE IF amount < Quot(-MaxAmount, scale) THEN Ret(ZeroAmount, ErrUnderflow)
                     ELSE Ret(Amt(unit, MulWrap(amount, scale), cur.Digits, cur.Rounding), "")
        ELSE IF prec < dec THEN
            IF ~ScaleOK(dec - prec) THEN Ret(ZeroAmount, Panic)
            ELSE Ret(Amt(unit,
                         Quot(bankersRounding(amount, dec - prec), int64Scales(dec - prec)),
                         cur.Digits, cur.Rounding), "")
        ELSE Ret(Amt(unit, amount, cur.Digits, cur.Rounding), "")

NewZeroAmount(unit) ==
    LET cur == GetCurrency(unit)
    IN  IF cur.Rounding \notin {0, 1, 10, 100} THEN Ret(ZeroAmount, Panic)
        ELSE Ret(Amt(unit, 0, cur.Digits, cur.Rounding), "")

----------------------------------------------------------------------------
(* currency.go: arithmetic *)

Add(x, y) ==
    IF x.Unit # y.Unit THEN
        IF x = ZeroAmount THEN Ret(y, "") ELSE Ret(ZeroAmount, ErrMismatch)
    ELSE IF 0 < y.amount /\ Wrap(MaxAmount - y.amount) < x.amount THEN Ret(ZeroAmount, ErrOverflow)
    ELSE IF y.amount < 0 /\ x.amount < Wrap(-MaxAmount - y.amount) THEN Ret(ZeroAmount, ErrUnderflow)
    ELSE Ret([x EXCEPT !.amount = Wrap(x.amount + y.amount)], "")

Sub(x, y) ==
    IF x.Unit # y.Unit THEN
        IF x = ZeroAmount THEN Ret(Neg(y), "") ELSE Ret(ZeroAmount, ErrMismatch)
    ELSE IF 0 < y.amount /\ x.amount < Wrap(-MaxAmount + y.amount) THEN Ret(ZeroAmount, ErrUnderflow)
    ELSE IF y.amount < 0 /\ Wrap(MaxAmount + y.amount) < x.amount THEN Ret(ZeroAmount, ErrOverflow)
    ELSE Ret([x EXCEPT !.amount = Wrap(x.amount - y.amount)], "")

\* Mul without the guard for a positive amount and a negative factor.
MulNoNegativeFactorGuard(x, f) ==
    IF 1 < f /\ 0 < x.amount /\ Quot(MaxAmount, f) < x.amount THEN Ret(ZeroAmount, ErrOverflow)
    ELSE IF 1 < f /\ x.amount < 0 /\ x.amount < Quot(-MaxAmount, f) THEN Ret(ZeroAmount, ErrUnderflow)
    ELSE IF f < -1 /\ x.amount < 0 /\ Quot(MaxAmount, Wrap(-f)) < Wrap(-x.amount) THEN Ret(ZeroAmount, ErrOverflow)
    ELSE Ret([x EXCEPT !.amount = MulWrap(x.amount, f)], "")

Mul(x, f) ==
    IF 1 < f /\ 0 < x.amount /\ Quot(MaxAmount, f) < x.amount THEN Ret(ZeroAmount, ErrOverflow)
    ELSE IF 1 < f /\ x.amount < 0 /\ x.amount < Quot(-MaxAmount, f) THEN Ret(ZeroAmount, ErrUnderflow)
    ELSE IF f < -1 /\ x.amount < 0 /\ Quot(MaxAmount, Wrap(-f)) < Wrap(-x.amount) THEN Ret(ZeroAmount, ErrOverflow)
    ELSE IF f < -1 /\ 0 < x.amount /\ Quot(-MaxAmount, f) < x.amount THEN Ret(ZeroAmount, ErrUnderflow)
    ELSE Ret([x EXCEPT !.amount = MulWrap(x.amount, f)], "")

\* Div has no error result; a zero divisor is Go's integer-divide panic.
Div(x, f) ==
    IF f = 0 THEN Ret(ZeroAmount, Panic)
    ELSE IF x.amount < Quot(MaxAmount, 10) THEN
        Ret([x EXCEPT !.amount =
                Quot(bankersRounding(Quot(MulWrap(x.amount, 10), f), 1), 10)], "")
    ELSE Ret([x EXCEPT !.amount = Quot(x.amount, f)], "")

----------------------------------------------------------------------------
(* currency.go: comparison *)

\* The two rescaling loops of normaliseAmounts: multiply by ten until the
\* digit counts agree, giving up on overflow.
RECURSIVE Rescale(_, _, _)
Rescale(amount, digits, target) ==
    IF digits >= target THEN [amount |-> amount, ok |-> TRUE]
    ELSE IF 0 < amount /\ Quot(MaxAmount, 10) < amount THEN [amount |-> 0, ok |-> FALSE]
    ELSE IF amount < 0 /\ amount < Quot(-MaxAmount, 10) THEN [amount |-> 0, ok |-> FALSE]
    ELSE Rescale(MulWrap(amount, 10), digits + 1, target)

normaliseAmounts(x, y) ==
    IF x.Unit # y.Unit THEN [A |-> 0, B |-> 0, ok |-> FALSE]
    ELSE LET ra == Rescale(x.amount, x.digits, y.digits)
             rb == Rescale(y.amount, y.digits, x.digits)
         IN  IF ~ra.ok \/ ~rb.ok THEN [A |-> 0, B |-> 0, ok |-> FALSE]
             ELSE [A |-> ra.amount, B |-> rb.amount, ok |-> TRUE]

Equals(x, y) ==
    LET n == normaliseAmounts(x, y)
    IN  IF ~n.ok THEN FALSE ELSE n.A = n.B

Compare(x, y) ==
    LET n == normaliseAmounts(x, y)
    IN  IF ~n.ok THEN 0
        ELSE IF n.A < n.B THEN -1
        ELSE 1

----------------------------------------------------------------------------
(* currency.go: text form.  strconv.AppendNumber and strconv.ParseNumber     *)
(* belong to github.com/tdewolff/parse and currency.ParseISO to              *)
(* golang.org/x/text; they are modelled by what their callers rely on: the   *)
(* decimal digits of a word with a decimal point, and their inverse.         *)

DigitChars == <<"0", "1", "2", "3", "4", "5", "6", "7", "8", "9">>

IsDigit(c) == \E i \in 1..10 : DigitChars[i] = c

DigitVal(c) == (CHOOSE i \in 1..10 : DigitChars[i] = c) - 1

\* The decimal digits of a natural number, most significant first.
RECURSIVE NatDigits(_)
NatDigits(n) ==
    IF n < 10 THEN <<DigitChars[n + 1]>>
    ELSE Append(NatDigits(n \div 10), DigitChars[(n % 10) + 1])

RECURSIVE Zeros(_)
Zeros(n) == IF n <= 0 THEN <<>> ELSE <<"0">> \o Zeros(n - 1)

\* strconv.AppendNumber(b, price, dec, 0, 0, '.'): no grouping, dec decimals.
AppendNumber(price, dec) ==
    LET ds == NatDigits(AbsInt(price))
        padded == Zeros(dec + 1 - Len(ds)) \o ds
        n == Len(padded)
        sign == IF price < 0 THEN <<"-">> ELSE <<>>
    IN  IF dec <= 0 THEN sign \o ds
        ELSE sign \o SubSeq(padded, 1, n - dec) \o <<".">> \o SubSeq(padded, n - dec + 1, n)

\* strconv.ParseNumber(b, ',', '.'): the number, its decimals and the bytes
\* read; it stops at the first byte that is no part of a number and at the
\* first digit that no longer fits in a word.
RECURSIVE ParseNumberFrom(_, _, _, _, _, _)
ParseNumberFrom(b, n, sign, price, dec, hasDecimals) ==
    IF n > Len(b) THEN [price |-> price, dec |-> dec, n |-> n - 1]
    ELSE IF IsDigit(b[n]) THEN
        LET digit == sign * DigitVal(b[n])
        IN  IF sign = 1 /\ (MaxInt \div 10 < price \/ MaxInt - digit < price * 10)
                THEN [price |-> price, dec |-> dec, n |-> n - 1]
            ELSE IF sign = -1 /\ (price < Quot(MinInt, 10) \/ price * 10 < MinInt - digit)
                THEN [price |-> price, dec |-> dec, n |-> n - 1]
            ELSE ParseNumberFrom(b, n + 1, sign, price * 10 + digit,
                                 IF hasDecimals THEN dec + 1 ELSE dec, hasDecimals)
    ELSE IF ~hasDecimals /\ b[n] \in {",", "."} THEN
        ParseNumberFrom(b, n + 1, sign, price, dec, b[n] = ".")
    ELSE [price |-> price, dec |-> dec, n |-> n - 1]

ParseNumber(b) ==
    IF Len(b) > 0 /\ b[1] = "-" THEN ParseNumberFrom(b, 2, -1, 0, 0, FALSE)
    ELSE ParseNumberFrom(b, 1, 1, 0, 0, FALSE)

ParseAmountBytes(unit, b) ==
    LET p == ParseNumber(b)
    IN  IF p.n # Len(b) THEN Ret(ZeroAmount, ErrInvalid)
        ELSE NewAmount(unit, p.price, p.dec)

\* The ISO codes as text, and Unit.String() / currency.ParseISO on them.
UnitText ==
    [EUR |-> <<"E", "U", "R">>, JPY |-> <<"J", "P", "Y">>, XRB |-> <<"X", "R", "B">>,
     XRC |-> <<"X", "R", "C">>, XRD |-> <<"X", "R", "D">>, XXX |-> <<"X", "X", "X">>]

UnitString(unit) == UnitText[unit]

ParseISO(t) ==
    IF \E u \in DOMAIN UnitText : UnitText[u] = t
    THEN [unit |-> CHOOSE u \in DOMAIN UnitText : UnitText[u] = t, ok |-> TRUE]
    ELSE [unit |-> ZeroUnit, ok |-> FALSE]

Amount(x) == [amount |-> x.amount, dec |-> x.digits + AmountPrecision]

RECURSIVE TrimZeros(_)
TrimZeros(b) ==
    IF b[Len(b)] = "0" THEN TrimZeros(SubSeq(b, 1, Len(b) - 1)) ELSE b

StringAmount(x) ==
    LET b == AppendNumber(Amount(x).amount, Amount(x).dec)
    IN  IF 0 < Amount(x).dec THEN
            LET t == TrimZeros(b)
            IN  IF t[Len(t)] = "." THEN SubSeq(t, 1, Len(t) - 1) ELSE t
        ELSE b

\* Scan asking for one byte more than the code and the shortest amount.
ScanTooStrict(b) ==
    IF Len(b) < 5 THEN Ret(ZeroAmount, ErrInvalid)
    ELSE LET iso == ParseISO(SubSeq(b, 1, 3))
             i == IF b[4] = " " THEN 5 ELSE 4
         IN  IF ~iso.ok THEN Ret(ZeroAmount, ErrInvalid)
             ELSE ParseAmountBytes(iso.unit, SubSeq(b, i, Len(b)))

\* Amount.Scan of a string or []byte source.
Scan(b) ==
    IF Len(b) < 4 THEN Ret(ZeroAmount, ErrInvalid)
    ELSE LET iso == ParseISO(SubSeq(b, 1, 3))
             i == IF b[4] = " " THEN 5 ELSE 4
         IN  IF ~iso.ok THEN Ret(ZeroAmount, ErrInvalid)
             ELSE ParseAmountBytes(iso.unit, SubSeq(b, i, Len(b)))

Value(x) == UnitString(x.Unit) \o StringAmount(x)

----------------------------------------------------------------------------
(* The inputs of the Amount operations *)

\* The largest number of decimals given to NewAmount.
MaxDec == 7

Signed(S) == S \cup {-n : n \in S}

\* Integers around the rounding digit, and the bounds of a word.
IntInputs ==
    Signed({0, 1, 2, 5, 15, 25, 105, 115, 1000, 16505, 16506, 16514, 16515, 66667,
            50000, 150000, 250000, 1650500, 1650510, 1650600, 1651400, 1651500,
            6512344, 6512345, 6512346, 6512355,
            MaxAmount, MaxAmount - 1, MaxAmount \div 10, (MaxAmount \div 10) + 1,
            MaxAmount \div 100, (MaxAmount \div 100) + 1})
    \cup {MinInt}

OperandInts ==
    Signed({0, 1, 2, 5, 100000, MaxAmount, MaxAmount - 1, MaxAmount \div 2})

AmountOf(u, n) == Amt(u, n, GetCurrency(u).Digits, GetCurrency(u).Rounding)

\* The second operand of Add, Sub, Compare and Equals for the receiver x:
\* the unset Amount, Amounts of the receiver's unit and Amounts of another.
Operands(x) ==
    {ZeroAmount}
    \cup {AmountOf(x.Unit, n) : n \in OperandInts}
    \cup {AmountOf(IF x.Unit = "EUR" THEN "JPY" ELSE "EUR", n) : n \in {0, 5}}

FactorInputs ==
    (-3..3) \cup Signed({7, 10, 1000, MaxInt \div 2, MaxInt}) \cup {MinInt}

T(u, n) == UnitText[u] \o n

\* Texts given to Scan: the forms of the tests, and malformed ones.
TextInputs ==
    {T("EUR", <<"1", "6", ".", "0", "0">>),
     T("EUR", <<"1", "6", ".", "5", "1">>),
     T("EUR", <<" ", "1", "6", ".", "5", "0">>),
     T("EUR", <<"6", ".", "5", "1", "2", "3", "4">>),
     T("EUR", <<"6", ".", "5", "1", "2", "3", "4", "4">>),
     T("EUR", <<"6", ".", "5", "1", "2", "3", "4", "6">>),
     T("EUR", <<"6", ".", "5", "1", "2", "3", "4", "5">>),
     T("EUR", <<"6", ".", "5", "1", "2", "3", "5", "5">>),
     T("EUR", <<"-", "6", ".", "5", "1", "2", "3", "4", "6">>),
     T("EUR", <<"-", "0", ".", "0", "0", "0", "0", "1">>),
     T("EUR", <<"0">>),
     T("EUR", <<"1", "0">>),
     T("EUR", <<"1", ".">>),
     T("EUR", <<".", "5">>),
     T("EUR", <<" ", "-", "1", "6">>),
     T("EUR", <<"9", "9", ".", "9", "9", "9", "9", "9">>),
     T("EUR", <<"1", "6", ".", "5", "x">>),
     T("EUR", <<" ", " ", "1">>),
     T("EUR", <<>>),
     T("EUR", <<" ">>),
     T("JPY", <<"1", "2">>),
     T("JPY", <<"1", ",", "2", "3", "4", ".", "5">>),
     T("JPY", <<"1", ".", "0", "0", "0", "5">>),
     T("XRB", <<"1", ".", "2", "5">>),
     T("XRD", <<"1">>),
     T("XXX", <<"0">>),
     <<"E", "U">>,
     <<"A", "B", "C", "1">>}

----------------------------------------------------------------------------
(* The Amount operations as actions.  A receiver a is built by one of the   *)
(* constructors and one call is applied to it; the call's argument and      *)
(* results are recorded.  No call changes its receiver (value semantics),   *)
(* so a second call on the same receiver reaches no further state.          *)

Others == <<loc, skel, ivl, call>>

Constructors == {"NewAmount", "NewZeroAmount", "Scan"}

\* A receiver has been built and no call applied to it yet.
Built == op \in Constructors

\* a, err := NewAmount(unit, amount, dec)
NewAmountOp ==
    /\ op = "init"
    /\ \E unit \in Units \cup {ZeroUnit}, amount \in IntInputs, dec \in 0..MaxDec :
        /\ op' = "NewAmount"
        /\ a' = NewAmount(unit, amount, dec).val
        /\ arg' = [unit |-> unit, amount |-> amount, dec |-> dec]
        /\ res' = NewAmount(unit, amount, dec).val
        /\ err' = NewAmount(unit, amount, dec).err
        /\ ret' = 0
    /\ UNCHANGED Others

\* a, err := NewZeroAmount(unit)
NewZeroAmountOp ==
    /\ op = "init"
    /\ \E unit \in Units \cup {ZeroUnit} :
        /\ op' = "NewZeroAmount"
        /\ a' = NewZeroAmount(unit).val
        /\ arg' = unit
        /\ res' = NewZeroAmount(unit).val
        /\ err' = NewZeroAmount(unit).err
        /\ ret' = 0
    /\ UNCHANGED Others

\* err := a.Scan(t)
ScanOp ==
    /\ op = "init"
    /\ \E t \in TextInputs :
        /\ op' = "Scan"
        /\ a' = Scan(t).val
        /\ arg' = t
        /\ res' = Scan(t).val
        /\ err' = Scan(t).err
        /\ ret' = 0
    /\ UNCHANGED Others

\* res := a.Round()
RoundOp ==
    /\ Built
    /\ op' = "Round"
    /\ a' = a
    /\ arg' = 0
    /\ res' = Ret(Round(a), "").val
    /\ err' = Ret(Round(a), "").err
    /\ ret' = 0
    /\ UNCHANGED Others

NegOp ==
    /\ Built
    /\ op' = "Neg"
    /\ a' = a
    /\ arg' = 0
    /\ res' = Ret(Neg(a), "").val
    /\ err' = Ret(Neg(a), "").err
    /\ ret' = 0
    /\ UNCHANGED Others

AbsOp ==
    /\ Built
    /\ op' = "Abs"
    /\ a' = a
    /\ arg' = 0
    /\ res' = Ret(Abs(a), "").val
    /\ err' = Ret(Abs(a), "").err
    /\ ret' = 0
    /\ UNCHANGED Others

\* res, err := a.Add(b)
AddOp ==
    /\ Built
    /\ \E b \in Operands(a) :
        /\ op' = "Add"
        /\ a' = a
        /\ arg' = b
        /\ res' = Add(a, b).val
        /\ err' = Add(a, b).err
        /\ ret' = 0
    /\ UNCHANGED Others

SubOp ==
    /\ Built
    /\ \E b \in Operands(a) :
        /\ op' = "Sub"
        /\ a' = a
        /\ arg' = b
        /\ res' = Sub(a, b).val
        /\ err' = Sub(a, b).err
        /\ ret' = 0
    /\ UNCHANGED Others

\* res, err := a.Mul(f)
MulOp ==
    /\ Built
    /\ \E f \in FactorInputs :
        /\ op' = "Mul"
        /\ a' = a
        /\ arg' = f
        /\ res' = Mul(a, f).val
        /\ err' = Mul(a, f).err
        /\ ret' = 0
    /\ UNCHANGED Others

DivOp ==
    /\ Built
    /\ \E f \in FactorInputs :
        /\ op' = "Div"
        /\ a' = a
        /\ arg' = f
        /\ res' = Div(a, f).val
        /\ err' = Div(a, f).err
        /\ ret' = 0
    /\ UNCHANGED Others

\* ret := a.Equals(b)
EqualsOp ==
    /\ Built
    /\ \E b \in Operands(a) :
        /\ op' = "Equals"
        /\ a' = a
        /\ arg' = b
        /\ res' = Ret(a, "").val
        /\ err' = Ret(a, "").err
        /\ ret' = Equals(a, b)
    /\ UNCHANGED Others

CompareOp ==
    /\ Built
    /\ \E b \in Operands(a) :
        /\ op' = "Compare"
        /\ a' = a
        /\ arg' = b
        /\ res' = Ret(a, "").val
        /\ err' = Ret(a, "").err
        /\ ret' = Compare(a, b)
    /\ UNCHANGED Others

\* ret, _ := a.Value()
ValueOp ==
    /\ Built
    /\ op' = "Value"
    /\ a' = a
    /\ arg' = 0
    /\ res' = Ret(a, "").val
    /\ err' = Ret(a, "").err
    /\ ret' = Value(a)
    /\ UNCHANGED Others

Idle == [op |-> "idle"]

AmountInit ==
    /\ a = ZeroAmount
    /\ op = "init"
    /\ arg = 0
    /\ res = ZeroAmount
    /\ err = ""
    /\ ret = 0
    /\ loc = Idle
    /\ skel = Idle
    /\ ivl = Idle
    /\ call = Idle

AmountNext ==
    \/ NewAmountOp
    \/ NewZeroAmountOp
    \/ ScanOp
    \/ RoundOp
    \/ NegOp
    \/ AbsOp
    \/ AddOp
    \/ SubOp
    \/ MulOp
    \/ DivOp
    \/ EqualsOp
    \/ CompareOp
    \/ ValueOp

AmountSpec == AmountInit /\ [][AmountNext]_vars

----------------------------------------------------------------------------
(* Exact arithmetic the claims are stated with *)

InRange(n) == -MaxAmount <= n /\ n <= MaxAmount

Sign(n) == IF n < 0 THEN -1 ELSE IF n > 0 THEN 1 ELSE 0

\* The rule of the single digit below the rounding boundary, on magnitudes:
\* above 5 one step away from zero, exactly 5 to the even retained digit.
DigitRound(v, prec) ==
    LET s == Pow10(prec)
        kept == AbsInt(v) \div s
        d == (AbsInt(v) \div (s \div 10)) % 10
        up == IF d > 5 THEN 1 ELSE IF d = 5 THEN kept % 2 ELSE 0
    IN  Sign(v) * ((kept + up) * s)

\* v / s rounded to the nearest integer, a remainder of exactly s/2 going to
\* the even one.
HalfEvenDiv(v, s) ==
    LET k == AbsInt(v) \div s
        r == AbsInt(v) % s
        up == IF 2 * r > s \/ (2 * r = s /\ k % 2 = 1) THEN 1 ELSE 0
    IN  Sign(v) * (k + up)

\* q is v / f rounded to a nearest integer (either one when v / f lies half way).
IsNearestQuotient(q, v, f) ==
    LET k == AbsInt(v) \div AbsInt(f)
        r == AbsInt(v) % AbsInt(f)
        sg == Sign(v) * Sign(f)
    IN  \/ 2 * r <= AbsInt(f) /\ q = sg * k
        \/ 2 * r >= AbsInt(f) /\ q = sg * (k + 1)

\* The exact product v * f lies above MaxAmount, or below -MaxAmount.
ProductAbove(v, f) == Sign(v) * Sign(f) > 0 /\ AbsInt(v) > MaxAmount \div AbsInt(f)

ProductBelow(v, f) == Sign(v) * Sign(f) < 0 /\ AbsInt(v) > MaxAmount \div AbsInt(f)

\* p is the exact product v * f.
IsProduct(p, v, f) ==
    IF v = 0 \/ f = 0 THEN p = 0
    ELSE /\ Sign(p) = Sign(v) * Sign(f)
         /\ AbsInt(p) % AbsInt(f) = 0
         /\ AbsInt(p) \div AbsInt(f) = AbsInt(v)

----------------------------------------------------------------------------
(* Claims about Amount *)

\* C1: Round looks at the single digit below the rounding boundary of an
\* Amount of either sign: above 5 the retained part moves one step away from
\* zero, at exactly 5 it moves to the even retained digit, otherwise the
\* dropped digits are truncated; a negative Amount gives the negated result
\* of its magnitude.  (Stated for the results that fit in a word.)
C1_RoundDigitRule ==
    (op = "Round" /\ InRange(DigitRound(a.amount, RoundPrec(a.rounding))))
        => res.amount = DigitRound(a.amount, RoundPrec(a.rounding))

\* C2: Add and Sub of two different units return the mismatch error and the
\* empty Amount unless one operand is ZeroAmount, which is an identity on
\* either side: ZeroAmount.Add(b) = b, a.Add(ZeroAmount) = a,
\* a.Sub(ZeroAmount) = a, ZeroAmount.Sub(b) = b.Neg().
C2_ZeroIdentityOrMismatch ==
    (op \in {"Add", "Sub"} /\ a.Unit # arg.Unit) =>
        IF a = ZeroAmount
            THEN err = "" /\ res = (IF op = "Add" THEN arg ELSE Neg(arg))
        ELSE IF arg = ZeroAmount
            THEN err = "" /\ res = a
        ELSE err = ErrMismatch /\ res = ZeroAmount

\* C3: for Amounts of one unit within [-MaxAmount, MaxAmount] and any factor,
\* Add, Sub and Mul return ErrOverflow exactly when the exact result lies
\* above MaxAmount, ErrUnderflow exactly when it lies below -MaxAmount, and
\* otherwise no error and the exact result; never a wrapped value.
C3_OverflowExact ==
    /\ (op \in {"Add", "Sub"} /\ a.Unit = arg.Unit /\ InRange(a.amount) /\ InRange(arg.amount)) =>
        LET exact == IF op = "Add" THEN a.amount + arg.amount ELSE a.amount - arg.amount
        IN  /\ err = ErrOverflow <=> exact > MaxAmount
            /\ err = ErrUnderflow <=> exact < -MaxAmount
            /\ InRange(exact) => (err = "" /\ res = [a EXCEPT !.amount = exact])
    /\ (op = "Mul" /\ InRange(a.amount)) =>
            /\ err = ErrOverflow <=> ProductAbove(a.amount, arg)
            /\ err = ErrUnderflow <=> ProductBelow(a.amount, arg)
            /\ err \in {"", ErrOverflow, ErrUnderflow}
            /\ err = "" => (IsProduct(res.amount, a.amount, arg) /\ InRange(res.amount)
                            /\ res = [a EXCEPT !.amount = res.amount])

\* A positive Amount times a negative factor falls below -MaxAmount.
C3_Witness ==
    op = "Mul" /\ arg < -1 /\ a.amount > 0 /\ a.amount < MaxAmount \div 2 /\ err = ErrUnderflow

\* C4: Div by a non-zero factor wraps nowhere, for every Amount within
\* [-MaxAmount, MaxAmount]: the result is the quotient rounded to the nearest
\* unit of the internal precision, and is no larger in magnitude than the
\* dividend.
C4_DivNearest ==
    (op = "Div" /\ arg # 0 /\ InRange(a.amount)) =>
        /\ err = ""
        /\ AbsInt(res.amount) <= AbsInt(a.amount)
        /\ IsNearestQuotient(res.amount, a.amount, arg)

\* C5: NewAmount(unit, amount, dec) with prec = digits + 3: for dec <= prec it
\* returns ErrOverflow or ErrUnderflow exactly when amount * 10^(prec-dec)
\* lies outside [-MaxAmount, MaxAmount] and otherwise stores that product; for
\* dec > prec it stores amount / 10^(dec-prec) rounded half to even; and the
\* stored magnitude never exceeds MaxAmount.
C5_NewAmountExact ==
    (op = "NewAmount" /\ GetCurrency(arg.unit).Rounding \in {0, 1, 10, 100}) =>
        LET prec == GetCurrency(arg.unit).Digits + AmountPrecision
        IN  /\ err = "" => InRange(res.amount)
            /\ (arg.dec <= prec /\ ScaleOK(prec - arg.dec)) =>
                  LET scale == Pow10(prec - arg.dec)
                  IN  /\ err = ErrOverflow <=> ProductAbove(arg.amount, scale)
                      /\ err = ErrUnderflow <=> ProductBelow(arg.amount, scale)
                      /\ err \in {"", ErrOverflow, ErrUnderflow}
                      /\ err = "" => IsProduct(res.amount, arg.amount, scale)
            /\ (arg.dec > prec /\ ScaleOK(arg.dec - prec)) =>
                  /\ err = ""
                  /\ res.amount = HalfEvenDiv(arg.amount, Pow10(arg.dec - prec))

\* The text is the ISO code of x directly followed by a decimal number that
\* ends neither in a decimal point nor, after a decimal point, in a zero.
IsPoint(c) == c = "."

NormalForm(t, x) ==
    /\ Len(t) >= 4
    /\ SubSeq(t, 1, 3) = UnitString(x.Unit)
    /\ (IsDigit(t[4]) \/ (t[4] = "-" /\ Len(t) >= 5 /\ IsDigit(t[5])))
    /\ t[Len(t)] # "."
    /\ (SelectSeq(t, IsPoint) # <<>> => t[Len(t)] # "0")
    /\ ParseNumber(SubSeq(t, 4, Len(t))).n = Len(t) - 3

C7_CompareOrder ==
    (op = "Compare" /\ normaliseAmounts(a, arg).ok) =>
        /\ ret = Sign(normaliseAmounts(a, arg).A - normaliseAmounts(a, arg).B)
        /\ ret = 0 <=> Equals(a, arg)

-----------------------------------------------------------------------------
(***************************************************************************)
(* Locale resolution (util.go).  A language tag is the sequence of its     *)
(* subtags; Und, the root tag, is the empty sequence.  A locale name, the  *)
(* key of the catalog, is the sequence of the parts between underscores:   *)
(* strings.ReplaceAll(tag.String(), "-", "_") of the tag es-CL is the name *)
(* es_CL, written <<"es", "CL">>, and the root tag prints as "und".        *)
(***************************************************************************)

\* language.Und
Und == <<>>

Languages == {"en", "es", "nl", "fr", "de", "pt", "zh"}

Regions == {"US", "GB", "CL", "MX", "NL", "BE", "419", "001"}

\* The tags the calls are made with.
Tags ==
    {Und} \cup {<<l>> : l \in Languages}
          \cup {<<l, r>> : l \in Languages, r \in Regions}

\* strings.ReplaceAll(tag.String(), "-", "_")
LocaleName(tag) == IF tag = Und THEN <<"und">> ELSE tag

\* language.Make(loc): "root" is no language tag and "und" is the root tag,
\* both give Und; the names of the tags above parse to their tag.
Make(name) == IF name \in {<<"root">>, <<"und">>} THEN Und ELSE name

\* The parents CLDR lists explicitly; every other tag drops its last subtag.
ParentLocales ==
    [t \in {<<"es", "CL">>, <<"es", "MX">>, <<"en", "GB">>} |->
        IF t[1] = "es" THEN <<"es", "419">> ELSE <<"en", "001">>]

\* tag.Parent()
Parent(tag) ==
    IF tag = Und THEN Und
    ELSE IF tag \in DOMAIN ParentLocales THEN ParentLocales[tag]
    ELSE SubSeq(tag, 1, Len(tag) - 1)

CalendarFormat(full, long, medium, short) ==
    [Full |-> full, Long |-> long, Medium |-> medium, Short |-> short]

\* A table value: a map from greatest difference to pattern, as the set of
\* its pairs; the zero value is the nil map.
Entry(pairs) == [nil |-> FALSE, pairs |-> pairs]

NilEntry == [nil |-> TRUE, pairs |-> {}]

\* Interval formats of a locale, by skeleton and greatest difference.
IntervalFormats ==
    [k \in {<<>>, <<"y", "M", "d">>, <<"y", "M", "M", "M", "d">>, <<"y", "M", "M", "M", "M", "d">>, <<"y", "M", "M", "M", "E", "d">>, <<"M", "M", "M", "d">>,
            <<"H", "m">>, <<"h", "m">>, <<"H", "m", "v">>, <<"h", "m", "v">>} |->
        CASE k = <<>> -> Entry({<<"", <<"{", "0", "}", " ", "-", " ", "{", "1", "}">>>>})
          [] k = <<"y", "M", "d">> -> Entry({<<"d", <<"M", "/", "d", "/", "y", " ", "-", " ", "M", "/", "d", "/", "y">>>>, <<"M", <<"M", "/", "d", "/", "y", " ", "-", " ", "M", "/", "d", "/", "y">>>>,
                                   <<"y", <<"M", "/", "d", "/", "y", " ", "-", " ", "M", "/", "d", "/", "y">>>>})
          [] k = <<"y", "M", "M", "M", "d">> -> Entry({<<"d", <<"M", "M", "M", " ", "d", " ", "-", " ", "d", ",", " ", "y">>>>, <<"M", <<"M", "M", "M", " ", "d", " ", "-", " ", "M", "M", "M", " ", "d", ",", " ", "y">>>>,
                                     <<"y", <<"M", "M", "M", " ", "d", ",", " ", "y", " ", "-", " ", "M", "M", "M", " ", "d", ",", " ", "y">>>>})
          [] k = <<"y", "M", "M", "M", "M", "d">> -> Entry({<<"d", <<"M", "M", "M", "M", " ", "d", " ", "-", " ", "d", ",", " ", "y">>>>, <<"M", <<"M", "M", "M", "M", " ", "d", " ", "-", " ", "M", "M", "M", "M", " ", "d", ",", " ", "y">>>>,
                                      <<"y", <<"M", "M", "M", "M", " ", "d", ",", " ", "y", " ", "-", " ", "M", "M", "M", "M", " ", "d", ",", " ", "y">>>>})
          [] k = <<"y", "M", "M", "M", "E", "d">> -> Entry({<<"d", <<"E", ",", " ", "M", "M", "M", " ", "d", " ", "-", " ", "E", ",", " ", "M", "M", "M", " ", "d", ",", " ", "y">>>>,
                                      <<"M", <<"E", ",", " ", "M", "M", "M", " ", "d", " ", "-", " ", "E", ",", " ", "M", "M", "M", " ", "d", ",", " ", "y">>>>,
                                      <<"y", <<"E", ",", " ", "M", "M", "M", " ", "d", ",", " ", "y", " ", "-", " ", "E", ",", " ", "M", "M", "M", " ", "d", ",", " ", "y">>>>})
          [] k = <<"M", "M", "M", "d">> -> Entry({<<"d", <<"M", "M", "M", " ", "d", " ", "-", " ", "d">>>>, <<"M", <<"M", "M", "M", " ", "d", " ", "-", " ", "M", "M", "M", " ", "d">>>>})
          [] k = <<"H", "m">> -> Entry({<<"H", <<"H", "H", ":", "m", "m", " ", "-", " ", "H", "H", ":", "m", "m">>>>, <<"m", <<"H", "H", ":", "m", "m", " ", "-", " ", "H", "H", ":", "m", "m">>>>})
          [] k = <<"h", "m">> -> Entry({<<"a", <<"h", ":", "m", "m", " ", "a", " ", "-", " ", "h", ":", "m", "m", " ", "a">>>>, <<"h", <<"h", ":", "m", "m", " ", "-", " ", "h", ":", "m", "m", " ", "a">>>>,
                                  <<"m", <<"h", ":", "m", "m", " ", "-", " ", "h", ":", "m", "m", " ", "a">>>>})
          [] k = <<"H", "m", "v">> -> Entry({<<"H", <<"H", "H", ":", "m", "m", " ", "-", " ", "H", "H", ":", "m", "m", " ", "v">>>>, <<"m", <<"H", "H", ":", "m", "m", " ", "-", " ", "H", "H", ":", "m", "m", " ", "v">>>>})
          [] OTHER -> Entry({<<"a", <<"h", ":", "m", "m", " ", "a", " ", "-", " ", "h", ":", "m", "m", " ", "a", " ", "v">>>>, <<"h", <<"h", ":", "m", "m", " ", "-", " ", "h", ":", "m", "m", " ", "a", " ", "v">>>>,
                             <<"m", <<"h", ":", "m", "m", " ", "-", " ", "h", ":", "m", "m", " ", "a", " ", "v">>>>})]

Restrict(f, S) == [k \in S |-> f[k]]

\* The types CurrencyFormat and Currency of a Locale.
CurrencyFormat(standard, amount, iso) ==
    [Standard |-> standard, Amount |-> amount, ISO |-> iso]

Currency(name, standard, narrow) == [Name |-> name, Standard |-> standard, Narrow |-> narrow]

\* The number fields of a Locale: the patterns of a currency amount, the two
\* symbols as their bytes, and the symbols of the currencies.
Numbers(format, decimal, group, currency) ==
    [CurrencyFormat |-> format, DecimalSymbol |-> decimal, GroupSymbol |-> group,
     Currency |-> currency]

\* The number fields of Locale{}: the rune 0 and the nil map.
ZeroNumbers == Numbers(CurrencyFormat(<<>>, <<>>, <<>>), <<"0x00">>, <<"0x00">>, <<>>)

CurrencySymbols ==
    [EUR |-> Currency(<<"E", "U", "R">>, <<"0xE2", "0x82", "0xAC">>, <<"0xE2", "0x82", "0xAC">>),
     JPY |-> Currency(<<"J", "P", "Y">>, <<"J", "P", "0xC2", "0xA5">>, <<"0xC2", "0xA5">>)]

NumbersRoot ==
    Numbers(CurrencyFormat(<<"0xC2", "0xA4", "0xC2", "0xA0", "#", ",", "#", "#",
                            "0", ".", "0", "0">>,
                           <<"#", ",", "#", "#", "0", ".", "0", "0">>,
                           <<"0xC2", "0xA4", "0xC2", "0xA0", "#", ",", "#", "#", "0", ".", "0", "0">>),
            <<".">>, <<",">>, CurrencySymbols)

NumbersEn ==
    Numbers(CurrencyFormat(<<"0xC2", "0xA4", "#", ",", "#", "#", "0", ".", "0",
                            "0">>,
                           <<"#", ",", "#", "#", "0", ".", "0", "0">>,
                           <<"0xC2", "0xA4", "0xC2", "0xA0", "#", ",", "#", "#", "0", ".", "0", "0">>),
            <<".">>, <<",">>, CurrencySymbols)

NumbersEs ==
    Numbers(CurrencyFormat(<<"#", ",", "#", "#", "0", ".", "0", "0", "0xC2", "0xA0",
                            "0xC2", "0xA4">>,
                           <<"#", ",", "#", "#", "0", ".", "0", "0">>,
                           <<"#", ",", "#", "#", "0", ".", "0", "0", "0xC2", "0xA0", "0xC2", "0xA4">>),
            <<",">>, <<".">>, CurrencySymbols)

NumbersNl ==
    Numbers(CurrencyFormat(<<"0xC2", "0xA4", "0xC2", "0xA0", "#", ",", "#", "#",
                            "0", ".", "0", "0", ";", "0xC2", "0xA4", "0xC2", "0xA0", "-", "#", ",", "#", "#",
                            "0", ".", "0", "0">>,
                           <<"#", ",", "#", "#", "0", ".", "0", "0", ";", "-", "#", ",", "#", "#", "0", ".",
                            "0", "0">>,
                           <<"0xC2", "0xA4", "0xC2", "0xA0", "#", ",", "#", "#",
                            "0", ".", "0", "0", ";", "0xC2", "0xA4", "0xC2", "0xA0", "-", "#", ",", "#", "#",
                            "0", ".", "0", "0">>),
            <<",">>, <<".">>, CurrencySymbols)

\* A Locale: the calendar formats, the interval formats, the units and the
\* number fields.
NewLocale(date, time, datetime, interval, unit, number) ==
    [DateFormat |-> date, TimeFormat |-> time, DatetimeFormat |-> datetime,
     DatetimeIntervalFormat |-> interval, Unit |-> unit,
     CurrencyFormat |-> number.CurrencyFormat, DecimalSymbol |-> number.DecimalSymbol,
     GroupSymbol |-> number.GroupSymbol, Currency |-> number.Currency]

\* Locale{}
ZeroLocale ==
    NewLocale(CalendarFormat(<<>>, <<>>, <<>>, <<>>),
              CalendarFormat(<<>>, <<>>, <<>>, <<>>),
              CalendarFormat(<<>>, <<>>, <<>>, <<>>),
              <<>>, <<>>, ZeroNumbers)

Time24 ==
    CalendarFormat(<<"H", "H", ":", "m", "m", ":", "s", "s", " ", "z", "z", "z", "z">>, <<"H", "H", ":", "m", "m", ":", "s", "s", " ", "z">>, <<"H", "H", ":", "m", "m", ":", "s", "s">>, <<"H", "H", ":", "m", "m">>)

Time12 ==
    CalendarFormat(<<"h", ":", "m", "m", ":", "s", "s", " ", "a", " ", "z", "z", "z", "z">>, <<"h", ":", "m", "m", ":", "s", "s", " ", "a", " ", "z">>, <<"h", ":", "m", "m", ":", "s", "s", " ", "a">>, <<"h", ":", "m", "m", " ", "a">>)

TimeEs ==
    CalendarFormat(<<"H", ":", "m", "m", ":", "s", "s", " ", "(", "z", "z", "z", "z", ")">>, <<"H", ":", "m", "m", ":", "s", "s", " ", "z">>, <<"H", ":", "m", "m", ":", "s", "s">>, <<"H", ":", "m", "m">>)

DateRoot ==
    CalendarFormat(<<"y", " ", "M", "M", "M", "M", " ", "d", ",", " ", "E", "E", "E", "E">>, <<"y", " ", "M", "M", "M", "M", " ", "d">>, <<"y", " ", "M", "M", "M", " ", "d">>, <<"y", "-", "M", "M", "-", "d", "d">>)

DateEn ==
    CalendarFormat(<<"E", "E", "E", "E", ",", " ", "M", "M", "M", "M", " ", "d", ",", " ", "y">>, <<"M", "M", "M", "M", " ", "d", ",", " ", "y">>, <<"M", "M", "M", " ", "d", ",", " ", "y">>, <<"M", "/", "d", "/", "y", "y">>)

DateEs ==
    CalendarFormat(<<"E", "E", "E", "E", ",", " ", "d", " ", "'", "d", "e", "'", " ", "M", "M", "M", "M", " ", "'", "d", "e", "'", " ", "y">>, <<"d", " ", "'", "d", "e", "'", " ", "M", "M", "M", "M", " ", "'", "d", "e", "'", " ", "y">>, <<"d", " ", "M", "M", "M", " ", "y">>, <<"d", "/", "M", "/", "y", "y">>)

DateEsCL ==
    CalendarFormat(<<"E", "E", "E", "E", ",", " ", "d", " ", "'", "d", "e", "'", " ", "M", "M", "M", "M", " ", "'", "d", "e", "'", " ", "y">>, <<"d", " ", "'", "d", "e", "'", " ", "M", "M", "M", "M", " ", "'", "d", "e", "'", " ", "y">>, <<"d", "d", "-", "M", "M", "-", "y">>, <<"d", "d", "-", "M", "M", "-", "y", "y">>)

DateNl ==
    CalendarFormat(<<"E", "E", "E", "E", " ", "d", " ", "M", "M", "M", "M", " ", "y">>, <<"d", " ", "M", "M", "M", "M", " ", "y">>, <<"d", " ", "M", "M", "M", " ", "y">>, <<"d", "d", "-", "M", "M", "-", "y">>)

Count(one, other) == [One |-> one, Other |-> other]

Unit(long, short, narrow) == [Long |-> long, Short |-> short, Narrow |-> narrow]

\* The units of the keys "duration-" + name that the catalog holds.
UnitNames ==
    {"century", "decade", "year", "month", "week", "day", "hour", "minute", "second",
     "millisecond", "microsecond", "nanosecond"}

\* The duration units of the records; a byte above 127 is written 0xHH.
UnitsRoot ==
    [u \in UnitNames |->
        CASE u = "century" ->
              Unit(Count(<<"{", "0", "}", " ", "c">>, <<"{", "0", "}", " ", "c">>),
                   Count(<<"{", "0", "}", " ", "c">>, <<"{", "0", "}", " ", "c">>),
                   Count(<<"{", "0", "}", "c">>, <<"{", "0", "}", "c">>))
          [] u = "decade" ->
              Unit(Count(<<"{", "0", "}", " ", "d", "e", "c">>, <<"{", "0", "}", " ", "d", "e", "c">>),
                   Count(<<"{", "0", "}", " ", "d", "e", "c">>, <<"{", "0", "}", " ", "d", "e", "c">>),
                   Count(<<"{", "0", "}", "d", "e", "c">>, <<"{", "0", "}", "d", "e", "c">>))
          [] u = "year" ->
              Unit(Count(<<"{", "0", "}", " ", "y">>, <<"{", "0", "}", " ", "y">>),
                   Count(<<"{", "0", "}", " ", "y">>, <<"{", "0", "}", " ", "y">>),
                   Count(<<"{", "0", "}", "y">>, <<"{", "0", "}", "y">>))
          [] u = "month" ->
              Unit(Count(<<"{", "0", "}", " ", "m">>, <<"{", "0", "}", " ", "m">>),
                   Count(<<"{", "0", "}", " ", "m">>, <<"{", "0", "}", " ", "m">>),
                   Count(<<"{", "0", "}", "m">>, <<"{", "0", "}", "m">>))
          [] u = "week" ->
              Unit(Count(<<"{", "0", "}", " ", "w">>, <<"{", "0", "}", " ", "w">>),
                   Count(<<"{", "0", "}", " ", "w">>, <<"{", "0", "}", " ", "w">>),
                   Count(<<"{", "0", "}", "w">>, <<"{", "0", "}", "w">>))
          [] u = "day" ->
              Unit(Count(<<"{", "0", "}", " ", "d">>, <<"{", "0", "}", " ", "d">>),
                   Count(<<"{", "0", "}", " ", "d">>, <<"{", "0", "}", " ", "d">>),
                   Count(<<"{", "0", "}", "d">>, <<"{", "0", "}", "d">>))
          [] u = "hour" ->
              Unit(Count(<<"{", "0", "}", " ", "h">>, <<"{", "0", "}", " ", "h">>),
                   Count(<<"{", "0", "}", " ", "h">>, <<"{", "0", "}", " ", "h">>),
                   Count(<<"{", "0", "}", "h">>, <<"{", "0", "}", "h">>))
          [] u = "minute" ->
              Unit(Count(<<"{", "0", "}", " ", "m", "i", "n">>, <<"{", "0", "}", " ", "m", "i", "n">>),
                   Count(<<"{", "0", "}", " ", "m", "i", "n">>, <<"{", "0", "}", " ", "m", "i", "n">>),
                   Count(<<"{", "0", "}", "m", "i", "n">>, <<"{", "0", "}", "m", "i", "n">>))
          [] u = "second" ->
              Unit(Count(<<"{", "0", "}", " ", "s">>, <<"{", "0", "}", " ", "s">>),
                   Count(<<"{", "0", "}", " ", "s">>, <<"{", "0", "}", " ", "s">>),
                   Count(<<"{", "0", "}", "s">>, <<"{", "0", "}", "s">>))
          [] u = "millisecond" ->
              Unit(Count(<<"{", "0", "}", " ", "m", "s">>, <<"{", "0", "}", " ", "m", "s">>),
                   Count(<<"{", "0", "}", " ", "m", "s">>, <<"{", "0", "}", " ", "m", "s">>),
                   Count(<<"{", "0", "}", "m", "s">>, <<"{", "0", "}", "m", "s">>))
          [] u = "microsecond" ->
              Unit(Count(<<"{", "0", "}", " ", "0xCE", "0xBC", "s">>, <<"{", "0", "}", " ", "0xCE", "0xBC", "s">>),
                   Count(<<"{", "0", "}", " ", "0xCE", "0xBC", "s">>, <<"{", "0", "}", " ", "0xCE", "0xBC", "s">>),
                   Count(<<"{", "0", "}", "0xCE", "0xBC", "s">>, <<"{", "0", "}", "0xCE", "0xBC", "s">>))
          [] u = "nanosecond" ->
              Unit(Count(<<"{", "0", "}", " ", "n", "s">>, <<"{", "0", "}", " ", "n", "s">>),
                   Count(<<"{", "0", "}", " ", "n", "s">>, <<"{", "0", "}", " ", "n", "s">>),
                   Count(<<"{", "0", "}", "n", "s">>, <<"{", "0", "}", "n", "s">>))]

\* Unit of the record "en"
UnitsEn ==
    [u \in UnitNames |->
        CASE u = "century" ->
              Unit(Count(<<"{", "0", "}", " ", "c", "e", "n", "t", "u", "r", "y">>, <<"{", "0", "}", " ", "c", "e", "n", "t", "u", "r", "i", "e", "s">>),
                   Count(<<"{", "0", "}", " ", "c">>, <<"{", "0", "}", " ", "c">>),
                   Count(<<"{", "0", "}", "c">>, <<"{", "0", "}", "c">>))
          [] u = "decade" ->
              Unit(Count(<<"{", "0", "}", " ", "d", "e", "c", "a", "d", "e">>, <<"{", "0", "}", " ", "d", "e", "c", "a", "d", "e", "s">>),
                   Count(<<"{", "0", "}", " ", "d", "e", "c">>, <<"{", "0", "}", " ", "d", "e", "c">>),
                   Count(<<"{", "0", "}", "d", "e", "c">>, <<"{", "0", "}", "d", "e", "c">>))
          [] u = "year" ->
              Unit(Count(<<"{", "0", "}", " ", "y", "e", "a", "r">>, <<"{", "0", "}", " ", "y", "e", "a", "r", "s">>),
                   Count(<<"{", "0", "}", " ", "y", "r">>, <<"{", "0", "}", " ", "y", "r", "s">>),
                   Count(<<"{", "0", "}", "y">>, <<"{", "0", "}", "y">>))
          [] u = "month" ->
              Unit(Count(<<"{", "0", "}", " ", "m", "o", "n", "t", "h">>, <<"{", "0", "}", " ", "m", "o", "n", "t", "h", "s">>),
                   Count(<<"{", "0", "}", " ", "m", "t", "h">>, <<"{", "0", "}", " ", "m", "t", "h", "s">>),
                   Count(<<"{", "0", "}", "m">>, <<"{", "0", "}", "m">>))
          [] u = "week" ->
              Unit(Count(<<"{", "0", "}", " ", "w", "e", "e", "k">>, <<"{", "0", "}", " ", "w", "e", "e", "k", "s">>),
                   Count(<<"{", "0", "}", " ", "w", "k">>, <<"{", "0", "}", " ", "w", "k", "s">>),
                   Count(<<"{", "0", "}", "w">>, <<"{", "0", "}", "w">>))
          [] u = "day" ->
              Unit(Count(<<"{", "0", "}", " ", "d", "a", "y">>, <<"{", "0", "}", " ", "d", "a", "y", "s">>),
                   Count(<<"{", "0", "}", " ", "d", "a", "y">>, <<"{", "0", "}", " ", "d", "a", "y", "s">>),
                   Count(<<"{", "0", "}", "d">>, <<"{", "0", "}", "d">>))
          [] u = "hour" ->
              Unit(Count(<<"{", "0", "}", " ", "h", "o", "u", "r">>, <<"{", "0", "}", " ", "h", "o", "u", "r", "s">>),
                   Count(<<"{", "0", "}", " ", "h", "r">>, <<"{", "0", "}", " ", "h", "r">>),
                   Count(<<"{", "0", "}", "h">>, <<"{", "0", "}", "h">>))
          [] u = "minute" ->
              Unit(Count(<<"{", "0", "}", " ", "m", "i", "n", "u", "t", "e">>, <<"{", "0", "}", " ", "m", "i", "n", "u", "t", "e", "s">>),
                   Count(<<"{", "0", "}", " ", "m", "i", "n">>, <<"{", "0", "}", " ", "m", "i", "n">>),
                   Count(<<"{", "0", "}", "m">>, <<"{", "0", "}", "m">>))
          [] u = "second" ->
              Unit(Count(<<"{", "0", "}", " ", "s", "e", "c", "o", "n", "d">>, <<"{", "0", "}", " ", "s", "e", "c", "o", "n", "d", "s">>),
                   Count(<<"{", "0", "}", " ", "s", "e", "c">>, <<"{", "0", "}", " ", "s", "e", "c">>),
                   Count(<<"{", "0", "}", "s">>, <<"{", "0", "}", "s">>))
          [] u = "millisecond" ->
              Unit(Count(<<"{", "0", "}", " ", "m", "i", "l", "l", "i", "s", "e", "c", "o", "n", "d">>, <<"{", "0", "}", " ", "m", "i", "l", "l", "i", "s", "e", "c", "o", "n", "d", "s">>),
                   Count(<<"{", "0", "}", " ", "m", "s">>, <<"{", "0", "}", " ", "m", "s">>),
                   Count(<<"{", "0", "}", "m", "s">>, <<"{", "0", "}", "m", "s">>))
          [] u = "microsecond" ->
              Unit(Count(<<"{", "0", "}", " ", "m", "i", "c", "r", "o", "s", "e", "c", "o", "n", "d">>, <<"{", "0", "}", " ", "m", "i", "c", "r", "o", "s", "e", "c", "o", "n", "d", "s">>),
                   Count(<<"{", "0", "}", " ", "0xCE", "0xBC", "s">>, <<"{", "0", "}", " ", "0xCE", "0xBC", "s">>),
                   Count(<<"{", "0", "}", "0xCE", "0xBC", "s">>, <<"{", "0", "}", "0xCE", "0xBC", "s">>))
          [] u = "nanosecond" ->
              Unit(Count(<<"{", "0", "}", " ", "n", "a", "n", "o", "s", "e", "c", "o", "n", "d">>, <<"{", "0", "}", " ", "n", "a", "n", "o", "s", "e", "c", "o", "n", "d", "s">>),
                   Count(<<"{", "0", "}", " ", "n", "s">>, <<"{", "0", "}", " ", "n", "s">>),
                   Count(<<"{", "0", "}", "n", "s">>, <<"{", "0", "}", "n", "s">>))]

\* Unit of the records "es", "es_419" and "es_CL"
UnitsEs ==
    [u \in UnitNames |->
        CASE u = "century" ->
              Unit(Count(<<"{", "0", "}", " ", "s", "i", "g", "l", "o">>, <<"{", "0", "}", " ", "s", "i", "g", "l", "o", "s">>),
                   Count(<<"{", "0", "}", " ", "s", ".">>, <<"{", "0", "}", " ", "s", ".">>),
                   Count(<<"{", "0", "}", "s", ".">>, <<"{", "0", "}", "s", ".">>))
          [] u = "decade" ->
              Unit(Count(<<"{", "0", "}", " ", "d", "0xC3", "0xA9", "c", "a", "d", "a">>, <<"{", "0", "}", " ", "d", "0xC3", "0xA9", "c", "a", "d", "a", "s">>),
                   Count(<<"{", "0", "}", " ", "d", "0xC3", "0xA9", "c", ".">>, <<"{", "0", "}", " ", "d", "0xC3", "0xA9", "c", ".">>),
                   Count(<<"{", "0", "}", "d", "0xC3", "0xA9", "c", ".">>, <<"{", "0", "}", "d", "0xC3", "0xA9", "c", ".">>))
          [] u = "year" ->
              Unit(Count(<<"{", "0", "}", " ", "a", "0xC3", "0xB1", "o">>, <<"{", "0", "}", " ", "a", "0xC3", "0xB1", "o", "s">>),
                   Count(<<"{", "0", "}", " ", "a">>, <<"{", "0", "}", " ", "a">>),
                   Count(<<"{", "0", "}", "a">>, <<"{", "0", "}", "a">>))
          [] u = "month" ->
              Unit(Count(<<"{", "0", "}", " ", "m", "e", "s">>, <<"{", "0", "}", " ", "m", "e", "s", "e", "s">>),
                   Count(<<"{", "0", "}", " ", "m", ".">>, <<"{", "0", "}", " ", "m", ".">>),
                   Count(<<"{", "0", "}", "m", ".">>, <<"{", "0", "}", "m", ".">>))
          [] u = "week" ->
              Unit(Count(<<"{", "0", "}", " ", "s", "e", "m", "a", "n", "a">>, <<"{", "0", "}", " ", "s", "e", "m", "a", "n", "a", "s">>),
                   Count(<<"{", "0", "}", " ", "s", "e", "m", ".">>, <<"{", "0", "}", " ", "s", "e", "m", ".">>),
                   Count(<<"{", "0", "}", "s", "e", "m">>, <<"{", "0", "}", "s", "e", "m">>))
          [] u = "day" ->
              Unit(Count(<<"{", "0", "}", " ", "d", "0xC3", "0xAD", "a">>, <<"{", "0", "}", " ", "d", "0xC3", "0xAD", "a", "s">>),
                   Count(<<"{", "0", "}", " ", "d">>, <<"{", "0", "}", " ", "d">>),
                   Count(<<"{", "0", "}", "d">>, <<"{", "0", "}", "d">>))
          [] u = "hour" ->
              Unit(Count(<<"{", "0", "}", " ", "h", "o", "r", "a">>, <<"{", "0", "}", " ", "h", "o", "r", "a", "s">>),
                   Count(<<"{", "0", "}", " ", "h">>, <<"{", "0", "}", " ", "h">>),
                   Count(<<"{", "0", "}", "h">>, <<"{", "0", "}", "h">>))
          [] u = "minute" ->
              Unit(Count(<<"{", "0", "}", " ", "m", "i", "n", "u", "t", "o">>, <<"{", "0", "}", " ", "m", "i", "n", "u", "t", "o", "s">>),
                   Count(<<"{", "0", "}", " ", "m", "i", "n">>, <<"{", "0", "}", " ", "m", "i", "n">>),
                   Count(<<"{", "0", "}", "m", "i", "n">>, <<"{", "0", "}", "m", "i", "n">>))
          [] u = "second" ->
              Unit(Count(<<"{", "0", "}", " ", "s", "e", "g", "u", "n", "d", "o">>, <<"{", "0", "}", " ", "s", "e", "g", "u", "n", "d", "o", "s">>),
                   Count(<<"{", "0", "}", " ", "s">>, <<"{", "0", "}", " ", "s">>),
                   Count(<<"{", "0", "}", "s">>, <<"{", "0", "}", "s">>))
          [] u = "millisecond" ->
              Unit(Count(<<"{", "0", "}", " ", "m", "i", "l", "i", "s", "e", "g", "u", "n", "d", "o">>, <<"{", "0", "}", " ", "m", "i", "l", "i", "s", "e", "g", "u", "n", "d", "o", "s">>),
                   Count(<<"{", "0", "}", " ", "m", "s">>, <<"{", "0", "}", " ", "m", "s">>),
                   Count(<<"{", "0", "}", "m", "s">>, <<"{", "0", "}", "m", "s">>))
          [] u = "microsecond" ->
              Unit(Count(<<"{", "0", "}", " ", "m", "i", "c", "r", "o", "s", "e", "g", "u", "n", "d", "o">>, <<"{", "0", "}", " ", "m", "i", "c", "r", "o", "s", "e", "g", "u", "n", "d", "o", "s">>),
                   Count(<<"{", "0", "}", " ", "0xCE", "0xBC", "s">>, <<"{", "0", "}", " ", "0xCE", "0xBC", "s">>),
                   Count(<<"{", "0", "}", "0xCE", "0xBC", "s">>, <<"{", "0", "}", "0xCE", "0xBC", "s">>))
          [] u = "nanosecond" ->
              Unit(Count(<<"{", "0", "}", " ", "n", "a", "n", "o", "s", "e", "g", "u", "n", "d", "o">>, <<"{", "0", "}", " ", "n", "a", "n", "o", "s", "e", "g", "u", "n", "d", "o", "s">>),
                   Count(<<"{", "0", "}", " ", "n", "s">>, <<"{", "0", "}", " ", "n", "s">>),
                   Count(<<"{", "0", "}", "n", "s">>, <<"{", "0", "}", "n", "s">>))]

DatetimeRoot ==
    CalendarFormat(<<"{", "1", "}", " ", "{", "0", "}">>, <<"{", "1", "}", " ", "{", "0", "}">>, <<"{", "1", "}", " ", "{", "0", "}">>, <<"{", "1", "}", " ", "{", "0", "}">>)

DatetimeEn ==
    CalendarFormat(<<"{", "1", "}", " ", "'", "a", "t", "'", " ", "{", "0", "}">>, <<"{", "1", "}", " ", "'", "a", "t", "'", " ", "{", "0", "}">>, <<"{", "1", "}", ",", " ", "{", "0", "}">>, <<"{", "1", "}", ",", " ", "{", "0", "}">>)

DatetimeEs ==
    CalendarFormat(<<"{", "1", "}", ",", " ", "{", "0", "}">>, <<"{", "1", "}", ",", " ", "{", "0", "}">>, <<"{", "1", "}", ",", " ", "{", "0", "}">>, <<"{", "1", "}", ",", " ", "{", "0", "}">>)

DatetimeNl ==
    CalendarFormat(<<"{", "1", "}", " ", "'", "o", "m", "'", " ", "{", "0", "}">>, <<"{", "1", "}", " ", "'", "o", "m", "'", " ", "{", "0", "}">>, <<"{", "1", "}", ",", " ", "{", "0", "}">>, <<"{", "1", "}", ",", " ", "{", "0", "}">>)

\* The interval formats of the records with a 24-hour and a 12-hour clock:
\* the key of an item is the available format of its skeleton.
Interval24 ==
    [k \in {<<>>, <<"y", "-", "M", "M", "-", "d", "d">>, <<"H", "H", ":", "m", "m">>, <<"H", "H", ":", "m", "m", " ", "v">>} |->
        CASE k = <<>> -> IntervalFormats[<<>>]
          [] k = <<"y", "-", "M", "M", "-", "d", "d">> -> IntervalFormats[<<"y", "M", "d">>]
          [] k = <<"H", "H", ":", "m", "m">> -> IntervalFormats[<<"H", "m">>]
          [] OTHER -> IntervalFormats[<<"H", "m", "v">>]]

Interval12 ==
    [k \in {<<>>, <<"M", "M", "M", " ", "d", ",", " ", "y">>, <<"h", ":", "m", "m", " ", "a">>, <<"h", ":", "m", "m", " ", "a", " ", "v">>} |->
        CASE k = <<>> -> IntervalFormats[<<>>]
          [] k = <<"M", "M", "M", " ", "d", ",", " ", "y">> -> IntervalFormats[<<"y", "M", "M", "M", "d">>]
          [] k = <<"h", ":", "m", "m", " ", "a">> -> IntervalFormats[<<"h", "m">>]
          [] OTHER -> IntervalFormats[<<"h", "m", "v">>]]

\* The names the catalog is generated for.
LocaleNames ==
    {<<"root">>, <<"en">>, <<"es">>, <<"es", "419">>, <<"es", "CL">>,
     <<"nl">>, <<"nl", "NL">>}

\* The generated catalog: one record per name.
locales ==
    [n \in LocaleNames |->
        CASE n = <<"root">> -> NewLocale(DateRoot, Time24, DatetimeRoot, Interval24, UnitsRoot, NumbersRoot)
          [] n = <<"en">> -> NewLocale(DateEn, Time12, DatetimeEn, Interval12, UnitsEn, NumbersEn)
          [] n = <<"es">> -> NewLocale(DateEs, TimeEs, DatetimeEs, Interval24, UnitsEs, NumbersEs)
          [] n = <<"es", "419">> -> NewLocale(DateEs, Time24, DatetimeEs, Interval24, UnitsEs, NumbersEs)
          [] n = <<"es", "CL">> -> NewLocale(DateEsCL, Time24, DatetimeEs, Interval24, UnitsEs, NumbersEs)
          [] OTHER -> NewLocale(DateNl, Time24, DatetimeNl, Interval24, UnitsRoot, NumbersNl)]

\* locales[name] of a Go map: the zero record for a name that is no key.
LocaleAt(name) == IF name \in DOMAIN locales THEN locales[name] ELSE ZeroLocale

\* The loop of GetSupportedTag from the state (tag, name): the name it ends
\* with and the number of Parent() steps taken, counted from n.
RECURSIVE SupportedLoop(_, _, _)
SupportedLoop(tag, name, n) ==
    IF name \in DOMAIN locales \/ name = <<"root">>
    THEN [loc |-> name, steps |-> n]
    ELSE SupportedLoop(Parent(tag),
                       IF Parent(tag) = Und THEN <<"root">>
                       ELSE LocaleName(Parent(tag)),
                       n + 1)

GetSupportedTag(tag) == Make(SupportedLoop(tag, LocaleName(tag), 0).loc)

GetLocale(tag) == LocaleAt(LocaleName(GetSupportedTag(tag)))

GetSupportedTagOp ==
    /\ loc.op = "idle"
    /\ \E tag \in Tags :
        loc' = [op |-> "GetSupportedTag", tag |-> tag,
                steps |-> SupportedLoop(tag, LocaleName(tag), 0).steps,
                supported |-> GetSupportedTag(tag)]
    /\ UNCHANGED <<a, op, arg, res, err, ret, skel, ivl, call>>

GetLocaleOp ==
    /\ loc.op = "idle"
    /\ \E tag \in Tags :
        loc' = [op |-> "GetLocale", tag |-> tag,
                steps |-> SupportedLoop(tag, LocaleName(tag), 0).steps,
                supported |-> GetSupportedTag(tag),
                locale |-> GetLocale(tag)]
    /\ UNCHANGED <<a, op, arg, res, err, ret, skel, ivl, call>>

LocaleNext == GetSupportedTagOp \/ GetLocaleOp

LocaleSpec == AmountInit /\ [][LocaleNext]_vars

\* The first name of the chain tag -> parent -> ... that is a key of the
\* catalog, and "root" when the chain reaches the root tag without one.
RECURSIVE FirstInChain(_)
FirstInChain(tag) ==
    IF tag = Und THEN <<"root">>
    ELSE IF tag \in LocaleNames THEN tag
    ELSE FirstInChain(Parent(tag))

\* C8: locale resolution never fails: GetSupportedTag ends after at most one
\* Parent() step per subtag plus one, and GetLocale returns the catalog's
\* record of the first name of the chain requested -> parent -> ... -> root
\* that the catalog has, the "root" record when no other name of the chain
\* exists, and never the zero-valued record.
C8_RootFallback ==
    /\ loc.op \in {"GetSupportedTag", "GetLocale"} =>
        loc.steps <= Len(loc.tag) + 1
    /\ loc.op = "GetLocale" =>
        /\ loc.locale = locales[FirstInChain(loc.tag)]
        /\ loc.locale # ZeroLocale

-----------------------------------------------------------------------------
(***************************************************************************)
(* Skeleton matching (datetime.go).  A pattern or skeleton is the sequence *)
(* of its bytes.  The zero byte of an absent class is the empty string.    *)
(* Classes are numbered 1..12 (the source's j + 1).                        *)
(***************************************************************************)

symbolLists ==
    << <<"G">>, <<"y", "Y", "u", "U", "r">>, <<"Q", "q">>, <<"M", "L", "l">>, <<"w", "W">>, <<"d", "D", "F", "g">>, <<"E", "e", "c">>, <<"a", "b", "B">>,
       <<"h", "H", "K", "k", "j", "J", "C">>, <<"m">>, <<"s", "S", "A">>, <<"z", "Z", "O", "v", "V", "X", "x">> >>

Classes == 1..12

PenaltySimilarSymbol == 1

PenaltyDifferentLength == 12

PenaltyTextNumeric == 144

\* math.MaxInt, above every score
MathMaxInt == 2147483647

MinOf(S) == CHOOSE x \in S : \A y \in S : x <= y

\* strings.Index(pattern, string(symbol)), 1-based; 0 when absent
IndexOf(pattern, symbol) ==
    IF \E i \in 1..Len(pattern) : pattern[i] = symbol
    THEN MinOf({i \in 1..Len(pattern) : pattern[i] = symbol})
    ELSE 0

\* The length of the run of pattern[idx] that starts at idx.
RunLength(pattern, idx) ==
    CHOOSE n \in 1..(Len(pattern) - idx + 1) :
        /\ \A m \in 0..(n - 1) : pattern[idx + m] = pattern[idx]
        /\ idx + n > Len(pattern) \/ pattern[idx + n] # pattern[idx]

skeletonSymbol(symbol, n) == [Symbol |-> symbol, N |-> n]

\* The entry of one class: the first symbol of the list that occurs in the
\* pattern, with the length of its first run.
ClassSymbol(pattern, list) ==
    LET found == {k \in 1..Len(list) : IndexOf(pattern, list[k]) # 0}
    IN  IF found = {} THEN skeletonSymbol("", 0)
        ELSE skeletonSymbol(list[MinOf(found)],
                            RunLength(pattern, IndexOf(pattern, list[MinOf(found)])))

makeSkeletonSymbols(pattern) ==
    [j \in Classes |-> ClassSymbol(pattern, symbolLists[j])]

\* strings.Repeat(string(symbol), n)
Repeat(symbol, n) == [i \in 1..n |-> symbol]

\* elem[j] as the loop compares it: classes 8 and 12 take the target's symbol.
ElemAt(elem, target, j) ==
    IF j \in {8, 12} THEN skeletonSymbol(target[j].Symbol, elem[j].N) ELSE elem[j]

DisqualifiedMissingOnly(x, y) == x.N = 0 /\ y.N # 0

\* missing or extra fields
Disqualified(x, y) == (x.N = 0) # (y.N = 0)

\* ClassPenalty with every different width counted as a different length.
ClassPenaltyNoTextNumeric(x, y) ==
    (IF x.N # 0 /\ x.Symbol # y.Symbol THEN PenaltySimilarSymbol ELSE 0)
    + (IF x.N # 0 /\ x.N # y.N THEN PenaltyDifferentLength ELSE 0)

\* The penalty of one class present in both.
ClassPenalty(x, y) ==
    (IF x.N # 0 /\ x.Symbol # y.Symbol THEN PenaltySimilarSymbol ELSE 0)
    + (IF x.N # 0 /\ x.N # y.N
       THEN IF \/ /\ (x.N < 3) # (y.N < 3)
                  /\ x.Symbol \in {"M", "L", "Q", "q", "e", "c"}
               \/ /\ x.Symbol # y.Symbol
                  /\ (x.Symbol = "E" \/ y.Symbol = "E")
            THEN PenaltyTextNumeric
            ELSE PenaltyDifferentLength
       ELSE 0)

RECURSIVE ScoreFrom(_, _, _)
ScoreFrom(elem, target, j) ==
    IF j > 12 THEN 0
    ELSE ClassPenalty(ElemAt(elem, target, j), target[j])
         + ScoreFrom(elem, target, j + 1)

\* The substitutions of a candidate: a map as the set of its (key, value)
\* pairs; the write of class 12 replaces that of class 8 on an equal key.
SubsOf(elem, target) ==
    {<<elem[12].Symbol, Repeat(target[12].Symbol, target[12].N)>>}
    \cup (IF elem[8].Symbol = elem[12].Symbol THEN {}
          ELSE {<<elem[8].Symbol, Repeat(target[8].Symbol, target[8].N)>>})

Subs(isNil, pairs) == [nil |-> isNil, pairs |-> pairs]

\* One iteration of LoopList on candidate i.
LoopBody(skeleton, i, target, st) ==
    IF \E j \in Classes :
          Disqualified(ElemAt(makeSkeletonSymbols(skeleton), target, j), target[j])
    THEN st
    ELSE IF ScoreFrom(makeSkeletonSymbols(skeleton), target, 1) < st.bestScore
    THEN [best |-> i,
          bestScore |-> ScoreFrom(makeSkeletonSymbols(skeleton), target, 1),
          bestSubs |-> Subs(FALSE, SubsOf(makeSkeletonSymbols(skeleton), target))]
    ELSE st

RECURSIVE LoopList(_, _, _, _)
LoopList(skeletons, i, target, st) ==
    IF i > Len(skeletons) THEN st
    ELSE LoopList(skeletons, i + 1, target, LoopBody(skeletons[i], i, target, st))

\* formats[key] of a Go map
FormatAt(formats, key) ==
    IF key \in DOMAIN formats THEN formats[key] ELSE NilEntry

\* matchSkeletonSymbols(formats, pattern), with the order in which the map
\* iteration delivered the non-empty keys.
matchSkeletonSymbols(formats, skeletons, pattern) ==
    LET st == LoopList(skeletons, 1, makeSkeletonSymbols(pattern),
                       [best |-> -1, bestScore |-> MathMaxInt,
                        bestSubs |-> Subs(FALSE, {})])
    IN  IF st.best = -1
        THEN [val |-> FormatAt(formats, <<>>), subs |-> Subs(TRUE, {})]
        ELSE [val |-> FormatAt(formats, skeletons[st.best]), subs |-> st.bestSubs]

\* Tables of other skeletons, with one pattern each: day periods and time
\* zones written with several symbols, and months as text and as numbers.
OtherTables ==
    { [k \in {<<>>, <<"h", "m", "b", "v">>, <<"K", "m", "a", "z">>} |-> Entry({<<"h", k>>})],
      [k \in {<<>>, <<"h", "m", "a", "z">>, <<"h", "m", "a", "v">>, <<"H", "m", "a", "z">>} |-> Entry({<<"h", k>>})],
      [k \in {<<>>, <<"y", "M", "d">>, <<"y", "M", "M", "d">>, <<"y", "M", "M", "M", "M", "M", "d">>, <<"y", "L", "L", "L", "d">>} |-> Entry({<<"d", k>>})],
      [k \in {<<>>, <<"y", "M", "M", "M", "E", "d">>, <<"y", "M", "M", "M", "E", "E", "E", "E", "d">>, <<"y", "M", "M", "M", "e", "d">>, <<"y", "M", "M", "M", "c", "c", "c", "d">>} |-> Entry({<<"d", k>>})] }

\* The tables the matcher is called with.
Tables ==
    { Restrict(IntervalFormats, {<<>>, <<"y", "M", "d">>, <<"y", "M", "M", "M", "d">>, <<"y", "M", "M", "M", "M", "d">>, <<"y", "M", "M", "M", "E", "d">>}),
      Restrict(IntervalFormats, {<<>>, <<"y", "M", "M", "M", "d">>, <<"y", "M", "M", "M", "M", "d">>, <<"M", "M", "M", "d">>}),
      Restrict(IntervalFormats, {<<>>, <<"H", "m">>, <<"h", "m">>, <<"H", "m", "v">>, <<"h", "m", "v">>}),
      Restrict(IntervalFormats, {<<>>}),
      Restrict(IntervalFormats, {<<"y", "M", "d">>, <<"H", "m">>}) }
    \cup OtherTables

\* The target patterns.
Patterns ==
    { <<>>, <<"-", "-">>, <<"y", "-", "M", "M", "-", "d", "d">>, <<"M", "/", "d", "/", "y", "y">>, <<"d", " ", "M", "M", "M", " ", "y">>, <<"d", " ", "M", "M", "M", "M", " ", "y">>,
      <<"E", "E", "E", "E", ",", " ", "d", " ", "M", "M", "M", "M", " ", "y">>, <<"M", "M", "M", " ", "d">>, <<"y">>, <<"H", "H", ":", "m", "m">>, <<"h", ":", "m", "m", " ", "a">>,
      <<"H", "H", ":", "m", "m", ":", "s", "s">>, <<"H", "H", ":", "m", "m", " ", "v">>, <<"h", ":", "m", "m", " ", "a", " ", "z">> }

\* The orders in which a map iteration can deliver the keys S.
Orders(S) ==
    {s \in [1..Cardinality(S) -> S] :
        \A i, j \in 1..Cardinality(S) : s[i] = s[j] => i = j}

MatchSkeletonOp ==
    /\ skel.op = "idle"
    /\ \E formats \in Tables, pattern \in Patterns :
        \E skeletons \in Orders(DOMAIN formats \ {<<>>}) :
            skel' = [op |-> "matchSkeletonSymbols", formats |-> formats,
                     skeletons |-> skeletons, pattern |-> pattern,
                     result |-> matchSkeletonSymbols(formats, skeletons, pattern)]
    /\ UNCHANGED <<a, op, arg, res, err, ret, loc, ivl, call>>

SkeletonNext == MatchSkeletonOp

SkeletonSpec == AmountInit /\ [][SkeletonNext]_vars

\* The classes with a symbol anywhere in the pattern.
PresentClasses(p) ==
    {j \in Classes :
        \E i \in 1..Len(p) : \E k \in 1..Len(symbolLists[j]) : p[i] = symbolLists[j][k]}

-----------------------------------------------------------------------------
(***************************************************************************)
(* Interval formatting (datetime.go).  A layout built from the named       *)
(* layouts is the sequence of its parts: <<"DateMedium", " ", "TimeShort">>*)
(* is DateMedium + " " + TimeShort.  An instant is the record of the       *)
(* fields its accessors return.                                            *)
(***************************************************************************)

DateLayouts == {"DateFull", "DateLong", "DateMedium", "DateShort"}

TimeLayouts == {"TimeFull", "TimeLong", "TimeMedium", "TimeShort"}

Separators == {" at ", ", ", " "}

\* locale.DateFormat.X of the named date layout
DateFormatOf(locale, name) ==
    CASE name = "DateFull" -> locale.DateFormat.Full
      [] name = "DateLong" -> locale.DateFormat.Long
      [] name = "DateMedium" -> locale.DateFormat.Medium
      [] OTHER -> locale.DateFormat.Short

\* locale.TimeFormat.X of the named time layout
TimeFormatOf(locale, name) ==
    CASE name = "TimeFull" -> locale.TimeFormat.Full
      [] name = "TimeLong" -> locale.TimeFormat.Long
      [] name = "TimeMedium" -> locale.TimeFormat.Medium
      [] OTHER -> locale.TimeFormat.Short

\* strings.IndexByte(s, c) != -1
HasByte(s, c) == \E i \in 1..Len(s) : s[i] = c

\* The text of a part of a layout: the constant of its name, or the custom
\* layout "2006-01-02 15:04:05".
PartText(part) ==
    CASE part = "DateFull" -> <<"M", "o", "n", "d", "a", "y", ",", " ", "J", "a", "n", "u", "a", "r", "y", " ", "2", ",", " ", "2", "0", "0", "6">>
      [] part = "DateLong" -> <<"J", "a", "n", "u", "a", "r", "y", " ", "2", ",", " ", "2", "0", "0", "6">>
      [] part = "DateMedium" -> <<"J", "a", "n", ".", " ", "2", ",", " ", "2", "0", "0", "6">>
      [] part = "DateShort" -> <<"1", "/", "2", "/", "0", "6">>
      [] part = "TimeFull" -> <<"1", "5", ":", "0", "4", ":", "0", "5", " ", "M", "o", "u", "n", "t", "a", "i", "n", " ", "S", "t", "a", "n", "d", "a", "r", "d", " ", "T", "i", "m", "e">>
      [] part = "TimeLong" -> <<"1", "5", ":", "0", "4", ":", "0", "5", " ", "M", "S", "T">>
      [] part = "TimeMedium" -> <<"1", "5", ":", "0", "4", ":", "0", "5">>
      [] part = "TimeShort" -> <<"1", "5", ":", "0", "4">>
      [] part = "DateTime" -> <<"2", "0", "0", "6", "-", "0", "1", "-", "0", "2", " ", "1", "5", ":", "0", "4", ":", "0", "5">>
      [] part = " at " -> <<" ", "a", "t", " ">>
      [] part = ", " -> <<",", " ">>
      [] OTHER -> <<part>>

RECURSIVE LayoutText(_)
LayoutText(layout) ==
    IF layout = <<>> THEN <<>>
    ELSE PartText(Head(layout)) \o LayoutText(Tail(layout))

is12Hours(locale) == HasByte(locale.TimeFormat.Full, "h")

\* The branches of layoutToPattern in their order: the layout prefix, and
\* the symbols written with a 12-hour and with a 24-hour clock.
LayoutRules ==
    << <<<<"6">>, <<"y">>, <<"y">>>>,
       <<<<"0", "6">>, <<"y", "y">>, <<"y", "y">>>>,
       <<<<"2", "0", "0", "6">>, <<"y", "y", "y", "y">>, <<"y", "y", "y", "y">>>>,
       <<<<"1", "5">>, <<"h", "h">>, <<"H", "H">>>>,
       <<<<"1">>, <<"M">>, <<"M">>>>,
       <<<<"0", "1">>, <<"M", "M">>, <<"M", "M">>>>,
       <<<<"J", "a", "n", "u", "a", "r", "y">>, <<"M", "M", "M", "M">>, <<"M", "M", "M", "M">>>>,
       <<<<"J", "a", "n">>, <<"M", "M", "M">>, <<"M", "M", "M">>>>,
       <<<<"J">>, <<"M", "M", "M", "M", "M">>, <<"M", "M", "M", "M", "M">>>>,
       <<<<"2">>, <<"d">>, <<"d">>>>,
       <<<<"0", "2">>, <<"d", "d">>, <<"d", "d">>>>,
       <<<<"M", "o", "n", "d", "a", "y">>, <<"E", "E", "E", "E">>, <<"E", "E", "E", "E">>>>,
       <<<<"M", "o", "n">>, <<"E">>, <<"E">>>>,
       <<<<"M", "T">>, <<"v">>, <<"v">>>>,
       <<<<"M", "o", "u", "n", "t", "a", "i", "n", " ", "T", "i", "m", "e">>, <<"v", "v", "v", "v">>, <<"v", "v", "v", "v">>>>,
       <<<<"A", "m", "e", "r", "i", "c", "a", "/", "P", "h", "o", "e", "n", "i", "x">>, <<"V", "V">>, <<"V", "V">>>>,
       <<<<"P", "h", "o", "e", "n", "i", "x", " ", "T", "i", "m", "e">>, <<"V", "V", "V", "V">>, <<"V", "V", "V", "V">>>>,
       <<<<"P", "h", "o", "e", "n", "i", "x">>, <<"V", "V", "V">>, <<"V", "V", "V">>>>,
       <<<<"M", "S", "T", "-", "0", "7", ":", "0", "0">>, <<"Z", "Z", "Z", "Z">>, <<"Z", "Z", "Z", "Z">>>>,
       <<<<"M", "S", "T">>, <<"z">>, <<"z">>>>,
       <<<<"M", "o", "u", "n", "t", "a", "i", "n", " ", "S", "t", "a", "n", "d", "a", "r", "d", " ", "T", "i", "m", "e">>, <<"z", "z", "z", "z">>, <<"z", "z", "z", "z">>>>,
       <<<<"M">>, <<"E", "E", "E", "E", "E">>, <<"E", "E", "E", "E", "E">>>>,
       <<<<"P", "M">>, <<"a">>, <<"a">>>>,
       <<<<"p", ".", "m", ".">>, <<"a", "a", "a", "a">>, <<"a", "a", "a", "a">>>>,
       <<<<"p", ".", " ", "m", ".">>, <<"a", "a", "a", "a", "a">>, <<"a", "a", "a", "a", "a">>>>,
       <<<<"3">>, <<"H">>, <<"h">>>>,
       <<<<"0", "3">>, <<"H", "H">>, <<"h", "h">>>>,
       <<<<"4">>, <<"m">>, <<"m">>>>,
       <<<<"0", "4">>, <<"m", "m">>, <<"m", "m">>>>,
       <<<<"5">>, <<"s">>, <<"s">>>>,
       <<<<"0", "5">>, <<"s", "s">>, <<"s", "s">>>>,
       <<<<"-", "0", "7", "0", "0">>, <<"Z">>, <<"Z">>>>,
       <<<<"G", "M", "T", "-", "7", ":", "0", "0">>, <<"Z", "Z", "Z", "Z">>, <<"Z", "Z", "Z", "Z">>>>,
       <<<<"G", "M", "T", "-", "7">>, <<"O">>, <<"O">>>>,
       <<<<"G", "M", "T", "-", "0", "7", ":", "0", "0">>, <<"O", "O", "O", "O">>, <<"O", "O", "O", "O">>>>,
       <<<<"-", "0", "7", ":", "0", "0", ":", "0", "0">>, <<"Z", "Z", "Z", "Z", "Z">>, <<"Z", "Z", "Z", "Z", "Z">>>>,
       <<<<"-", "0", "7", ":", "0", "0">>, <<"Z", "Z", "Z", "Z", "Z">>, <<"Z", "Z", "Z", "Z", "Z">>>> >>

\* strings.HasPrefix(s[i:], prefix), 1-based
HasPrefixAt(s, i, prefix) ==
    /\ i + Len(prefix) - 1 <= Len(s)
    /\ \A k \in 1..Len(prefix) : s[i + k - 1] = prefix[k]

\* The first branch of layoutToPattern taken at position i; 0 for the final
\* else.
RuleAt(layout, i) ==
    IF \E k \in 1..Len(LayoutRules) : HasPrefixAt(layout, i, LayoutRules[k][1])
    THEN MinOf({k \in 1..Len(LayoutRules) : HasPrefixAt(layout, i, LayoutRules[k][1])})
    ELSE 0

RECURSIVE layoutToPatternFrom(_, _, _)
layoutToPatternFrom(locale, layout, i) ==
    IF i > Len(layout) THEN <<>>
    ELSE IF RuleAt(layout, i) = 0
         THEN <<layout[i]>> \o layoutToPatternFrom(locale, layout, i + 1)
    ELSE (IF is12Hours(locale) THEN LayoutRules[RuleAt(layout, i)][2]
          ELSE LayoutRules[RuleAt(layout, i)][3])
         \o layoutToPatternFrom(locale, layout,
                                i + Len(LayoutRules[RuleAt(layout, i)][1]))

layoutToPattern(locale, layout) == layoutToPatternFrom(locale, layout, 1)

\* locale.DatetimeFormat.X of the named date layout
DatetimeFormatOf(locale, name) ==
    CASE name = "DateFull" -> locale.DatetimeFormat.Full
      [] name = "DateLong" -> locale.DatetimeFormat.Long
      [] name = "DateMedium" -> locale.DatetimeFormat.Medium
      [] OTHER -> locale.DatetimeFormat.Short

\* The patterns layoutToPatterns returns for a layout of named parts.  The
\* time part is looked for only behind a date part and a separator: a layout
\* that starts with no date layout has an empty date and an empty time
\* pattern, and its whole translation as the combining pattern.
layoutToPatterns(locale, layout) ==
    LET hasDate == Len(layout) > 0 /\ layout[1] \in DateLayouts
        idxSep == IF hasDate THEN 1 ELSE Len(layout)
        hasSep == idxSep < Len(layout) /\ layout[idxSep + 1] \in Separators
        rest == SubSeq(layout, idxSep + 2, Len(layout))
        datePattern ==
            IF idxSep < Len(layout) /\ ~hasSep
            THEN layoutToPattern(locale, LayoutText(layout))
            ELSE IF hasDate THEN DateFormatOf(locale, layout[1]) ELSE <<>>
        timePattern ==
            IF ~hasSep THEN <<>>
            ELSE IF Len(rest) = 1 /\ rest[1] \in TimeLayouts
                 THEN TimeFormatOf(locale, rest[1])
            ELSE layoutToPattern(locale, LayoutText(rest))
    IN  [pattern |->
            IF datePattern # <<>> /\ timePattern # <<>>
            THEN DatetimeFormatOf(locale, layout[1])
            ELSE IF datePattern # <<>> THEN <<"{", "1", "}">>
            ELSE IF timePattern # <<>> THEN <<"{", "0", "}">>
            ELSE layoutToPattern(locale, LayoutText(layout)),
         datePattern |-> datePattern,
         timePattern |-> timePattern]

Time(year, month, day, hour, minute, second) ==
    [Year |-> year, Month |-> month, Day |-> day, Hour |-> hour,
     Minute |-> minute, Second |-> second]

GreatestDifferenceHourBeforeHalf(From, To, timePattern) ==
    IF From.Year # To.Year THEN "y"
    ELSE IF From.Month # To.Month THEN "M"
    ELSE IF From.Day # To.Day THEN "d"
    ELSE IF From.Hour # To.Hour
         THEN IF HasByte(timePattern, "H") THEN "H" ELSE "h"
    ELSE IF From.Hour \div 12 # To.Hour \div 12 THEN "a"
    ELSE IF From.Minute # To.Minute THEN "m"
    ELSE IF From.Second # To.Second THEN "s"
    ELSE ""

\* The greatestDifference that Format computes.
GreatestDifference(From, To, timePattern) ==
    IF From.Year # To.Year THEN "y"
    ELSE IF From.Month # To.Month THEN "M"
    ELSE IF From.Day # To.Day THEN "d"
    ELSE IF From.Hour \div 12 # To.Hour \div 12 THEN "a"
    ELSE IF From.Hour # To.Hour
         THEN IF HasByte(timePattern, "H") THEN "H" ELSE "h"
    ELSE IF From.Minute # To.Minute THEN "m"
    ELSE IF From.Second # To.Second THEN "s"
    ELSE ""

\* The locale Format uses: the root record, or the record of the printer's
\* language when the state is a Languager.
FormatLocale(languager) ==
    IF languager.ok THEN GetLocale(languager.tag) ELSE LocaleAt(<<"root">>)

\* strings.ReplaceAll(s, old, new) for a non-empty old
RECURSIVE ReplaceAll(_, _, _)
ReplaceAll(s, old, new) ==
    IF s = <<>> THEN <<>>
    ELSE IF HasPrefixAt(s, 1, old)
         THEN new \o ReplaceAll(SubSeq(s, Len(old) + 1, Len(s)), old, new)
    ELSE <<Head(s)>> \o ReplaceAll(Tail(s), old, new)

\* An element of the output: a byte of literal text (N = 0), or the text of
\* one field of the pattern (a run of N symbols) for an instant, given as
\* the value of the instant that the text is made from.
Lit(c) == [Symbol |-> c, N |-> 0, Value |-> 0]

\* []byte(s)
Lits(s) == [i \in 1..Len(s) |-> Lit(s[i])]

\* The value of an instant that the case of a symbol prints.
FieldValue(symbol, t) ==
    CASE symbol = "y" -> t.Year
      [] symbol = "M" -> t.Month
      [] symbol = "E" -> ((t.Year * 12) + t.Month) * 31 + t.Day
      [] symbol = "d" -> t.Day
      [] symbol = "a" -> t.Hour \div 12
      [] symbol \in {"b", "B"} -> (t.Hour * 60) + t.Minute
      [] symbol = "h" -> t.Hour % 12
      [] symbol = "H" -> t.Hour
      [] symbol = "m" -> t.Minute
      [] symbol = "s" -> t.Second
      [] OTHER -> 0

\* The symbols of the second case of formatDatetimeItem.
ItemSymbols ==
    {"G", "y", "Y", "u", "U", "r", "Q", "q", "M", "L", "w", "W", "E", "e", "c", "d",
     "D", "F", "g", "a", "b", "B", "h", "H", "K", "k", "m", "s", "S", "A", "z", "Z",
     "O", "v", "V", "X", "x"}

\* The runs that the switch on the symbol has a case for.
SupportedItem(symbol, n) ==
    CASE symbol = "y" -> n \in {1, 2, 4}
      [] symbol \in {"M", "E", "a", "b", "B", "Z"} -> n \in 1..5
      [] symbol \in {"d", "h", "H", "m", "s"} -> n \in 1..2
      [] symbol \in {"v", "O"} -> n \in {1, 4}
      [] symbol \in {"V", "z"} -> n \in 1..4
      [] symbol = "X" -> n = 5
      [] symbol = "x" -> n = 4
      [] OTHER -> FALSE

\* What formatDatetimeItem appends for the run at position i, and how far it
\* advances: nothing is appended for a run without a case, and a byte that
\* is no symbol advances by 0.
formatDatetimeItem(pattern, i, t) ==
    IF pattern[i] \notin ItemSymbols THEN [b |-> <<>>, n |-> 0]
    ELSE [b |-> IF SupportedItem(pattern[i], RunLength(pattern, i))
                THEN <<[Symbol |-> pattern[i], N |-> RunLength(pattern, i),
                        Value |-> FieldValue(pattern[i], t)]>>
                ELSE <<>>,
          n |-> RunLength(pattern, i)]

\* The position of the quote that closes the one at i, or len(pattern) + 1.
ClosingQuote(pattern, i) ==
    IF \E j \in (i + 1)..Len(pattern) : pattern[j] = "'"
    THEN MinOf({j \in (i + 1)..Len(pattern) : pattern[j] = "'"})
    ELSE Len(pattern) + 1

RECURSIVE formatTimeFrom(_, _, _)
formatTimeFrom(pattern, t, i) ==
    IF i > Len(pattern) THEN <<>>
    ELSE IF pattern[i] = "'"
         THEN Lits(SubSeq(pattern, i + 1, ClosingQuote(pattern, i) - 1))
              \o formatTimeFrom(pattern, t, ClosingQuote(pattern, i) + 1)
    ELSE IF formatDatetimeItem(pattern, i, t).n # 0
         THEN formatDatetimeItem(pattern, i, t).b
              \o formatTimeFrom(pattern, t, i + formatDatetimeItem(pattern, i, t).n)
    ELSE <<Lit(pattern[i])>> \o formatTimeFrom(pattern, t, i + 1)

formatTime(pattern, t) == formatTimeFrom(pattern, t, 1)

\* The symbols at which formatInterval looks for a repeated field.
IntervalSymbols == ItemSymbols \cup {"j", "J", "C"}

\* formatInterval from position i: handled is the set of symbols seen, and
\* switched tells that a symbol was seen twice, from where on the fields
\* are those of to.
RECURSIVE formatIntervalFrom(_, _, _, _, _, _)
formatIntervalFrom(pattern, from, to, i, handled, switched) ==
    IF i > Len(pattern) THEN <<>>
    ELSE IF pattern[i] = "'"
         THEN Lits(SubSeq(pattern, i + 1, ClosingQuote(pattern, i) - 1))
              \o formatIntervalFrom(pattern, from, to, ClosingQuote(pattern, i) + 1,
                                    handled, switched)
    ELSE IF pattern[i] \notin IntervalSymbols
         THEN <<Lit(pattern[i])>>
              \o formatIntervalFrom(pattern, from, to, i + 1, handled, switched)
    ELSE IF pattern[i] \notin ItemSymbols
         THEN <<Lit(pattern[i])>>
              \o formatIntervalFrom(pattern, from, to, i + 1,
                                    handled \cup {pattern[i]},
                                    switched \/ pattern[i] \in handled)
    ELSE formatDatetimeItem(pattern, i,
                            IF switched \/ pattern[i] \in handled THEN to
                            ELSE from).b
         \o formatIntervalFrom(pattern, from, to, i + RunLength(pattern, i),
                               handled \cup {pattern[i]},
                               switched \/ pattern[i] \in handled)

formatInterval(pattern, from, to) ==
    formatIntervalFrom(pattern, from, to, 1, {}, FALSE)

\* m[key] of a map from greatest difference to pattern, and its ok
HasKey(entry, key) == \E p \in entry.pairs : p[1] = key

ValueAt(entry, key) ==
    IF HasKey(entry, key) THEN (CHOOSE p \in entry.pairs : p[1] = key)[2]
    ELSE <<>>

KeysOf(entry) == {p[1] : p \in entry.pairs}

\* The order of the bytes of the keys.
KeyBytes == <<"", "B", "G", "H", "M", "a", "d", "h", "m", "s", "y">>

\* diff < greatestDifference of two keys
KeyLess(x, y) == IndexOf(KeyBytes, x) < IndexOf(KeyBytes, y)

\* SubstituteLoop that goes on behind the key "y".
RECURSIVE SubstituteLoopNoBreak(_, _, _)
SubstituteLoopNoBreak(diffs, i, greatestDifference) ==
    IF i > Len(diffs) THEN greatestDifference
    ELSE IF diffs[i] = "y" THEN SubstituteLoopNoBreak(diffs, i + 1, "y")
    ELSE IF diffs[i] = "M" THEN SubstituteLoopNoBreak(diffs, i + 1, "M")
    ELSE IF greatestDifference # "M" /\ KeyLess(diffs[i], greatestDifference)
         THEN SubstituteLoopNoBreak(diffs, i + 1, diffs[i])
    ELSE SubstituteLoopNoBreak(diffs, i + 1, greatestDifference)

\* The loop of getIntervalPattern that looks for another key, over the keys
\* in the order the map iteration delivers them.
RECURSIVE SubstituteLoop(_, _, _)
SubstituteLoop(diffs, i, greatestDifference) ==
    IF i > Len(diffs) THEN greatestDifference
    ELSE IF diffs[i] = "y" THEN "y"
    ELSE IF diffs[i] = "M" THEN SubstituteLoop(diffs, i + 1, "M")
    ELSE IF greatestDifference # "M" /\ KeyLess(diffs[i], greatestDifference)
         THEN SubstituteLoop(diffs, i + 1, diffs[i])
    ELSE SubstituteLoop(diffs, i + 1, greatestDifference)

\* One strings.ReplaceAll of the loop over subs: every byte a becomes b.
RECURSIVE ReplaceSymbol(_, _, _)
ReplaceSymbol(s, x, y) ==
    IF s = <<>> THEN <<>>
    ELSE (IF Head(s) = x THEN y ELSE <<Head(s)>>) \o ReplaceSymbol(Tail(s), x, y)

\* The loop over subs.  The keys are symbols of the classes 8 and 12 and the
\* values are runs of symbols of the same class, so the replacements do not
\* meet and their order makes no difference.
RECURSIVE ApplySubs(_, _)
ApplySubs(s, pairs) ==
    IF pairs = {} THEN s
    ELSE ApplySubs(ReplaceSymbol(s, (CHOOSE p \in pairs : TRUE)[1],
                                 (CHOOSE p \in pairs : TRUE)[2]),
                   pairs \ {CHOOSE p \in pairs : TRUE})

\* getIntervalPattern behind its first statement: m is what
\* matchSkeletonSymbols returned, diffs the order in which the iteration
\* over the matched map delivers its keys.
IntervalPatternOf(m, diffs, greatestDifference) ==
    LET key == IF HasKey(m.val, greatestDifference) THEN greatestDifference
               ELSE SubstituteLoop(diffs, 1, "s")
    IN  IF m.subs.nil THEN [pattern |-> <<>>, ok |-> FALSE]
        ELSE [pattern |-> ApplySubs(ValueAt(m.val, key), m.subs.pairs),
              ok |-> HasKey(m.val, key)]

\* getIntervalPattern, with the orders of its two map iterations.
getIntervalPattern(locale, skeletons, diffs, pattern, greatestDifference) ==
    IntervalPatternOf(
        matchSkeletonSymbols(locale.DatetimeIntervalFormat, skeletons, pattern),
        diffs, greatestDifference)

\* The results of getIntervalPattern over the orders of the second iteration.
IntervalPatternsFor(m, greatestDifference) ==
    {IntervalPatternOf(m, diffs, greatestDifference) : diffs \in Orders(KeysOf(m.val))}

\* The results of getIntervalPattern over the orders of both iterations.
IntervalPatterns(locale, pattern, greatestDifference) ==
    UNION {IntervalPatternsFor(
               matchSkeletonSymbols(locale.DatetimeIntervalFormat, skeletons, pattern),
               greatestDifference) :
            skeletons \in Orders(DOMAIN locale.DatetimeIntervalFormat \ {<<>>})}

\* fullPattern of Format: the placeholders of the combining pattern replaced.
FullPattern(p) ==
    ReplaceAll(ReplaceAll(p.pattern, <<"{", "0", "}">>, p.timePattern), <<"{", "1", "}">>, p.datePattern)

\* greatestDifference of the second call: the hour symbol is taken from the
\* time pattern again.
TimeDifference(greatestDifference, timePattern) ==
    IF greatestDifference \in {"H", "h"}
    THEN IF HasByte(timePattern, "H") THEN "H" ELSE "h"
    ELSE greatestDifference

TimeDifferences == {"a", "H", "h", "m", "s"}

\* What Format writes, given the results full and time of its two calls of
\* getIntervalPattern; branch names the path taken.
Format(locale, From, To, Layout, full, time) ==
    LET p == layoutToPatterns(locale, Layout)
        greatestDifference == GreatestDifference(From, To, p.timePattern)
        default == ValueAt(FormatAt(locale.DatetimeIntervalFormat, <<>>), "")
    IN  IF full.ok
        THEN [branch |-> "full", out |-> formatInterval(full.pattern, From, To)]
        ELSE IF greatestDifference \in TimeDifferences
        THEN IF time.ok
             THEN [branch |-> "time",
                   out |-> formatInterval(
                       ReplaceAll(ReplaceAll(p.pattern, <<"{", "1", "}">>, p.datePattern),
                                  <<"{", "0", "}">>, time.pattern), From, To)]
             ELSE [branch |-> "once",
                   out |-> ReplaceAll(ReplaceAll(ReplaceAll(ReplaceAll(
                               Lits(locale.DatetimeFormat.Full),
                               Lits(<<"{", "1", "}">>), formatTime(p.datePattern, From)),
                               Lits(<<"{", "0", "}">>), Lits(default)),
                               Lits(<<"{", "0", "}">>), formatTime(p.timePattern, From)),
                               Lits(<<"{", "1", "}">>), formatTime(p.timePattern, To))]
        ELSE [branch |-> "join",
              out |-> ReplaceAll(ReplaceAll(Lits(default),
                          Lits(<<"{", "0", "}">>), formatTime(FullPattern(p), From)),
                          Lits(<<"{", "1", "}">>), formatTime(FullPattern(p), To))]

Languagers ==
    {[ok |-> FALSE, tag |-> Und]}
    \cup {[ok |-> TRUE, tag |-> t] :
            t \in {<<"en">>, <<"es", "MX">>, <<"fr">>}}

Layouts ==
    { <<"DateMedium", " ", "TimeShort">>, <<"DateShort", ", ", "TimeMedium">>,
      <<"DateFull", " at ", "TimeFull">>, <<"DateLong">>, <<"TimeShort">>, <<>>,
      <<"TimeMedium">>, <<"DateTime">> }

FromTimes == {Time(2025, 1, 2, 11, 30, 0)}

ToTimes ==
    {Time(y, M, d, h, m, s) :
        y \in {2024, 2025}, M \in {1, 2}, d \in {1, 2}, h \in {9, 11, 13},
        m \in {0, 30}, s \in {0, 5}}

IntervalFormatOp ==
    /\ ivl.op = "idle"
    /\ \E From \in FromTimes, To \in ToTimes, Layout \in Layouts,
          languager \in Languagers :
        LET locale == FormatLocale(languager)
            p == layoutToPatterns(locale, Layout)
            greatestDifference == GreatestDifference(From, To, p.timePattern)
        IN  \E full \in IntervalPatterns(locale, FullPattern(p), greatestDifference),
               time \in IntervalPatterns(locale, p.timePattern,
                           TimeDifference(greatestDifference, p.timePattern)) :
                ivl' = [op |-> "Format", From |-> From, To |-> To,
                        Layout |-> Layout, languager |-> languager,
                        timePattern |-> p.timePattern,
                        greatestDifference |-> greatestDifference,
                        fullPattern |-> FullPattern(p),
                        full |-> full, time |-> time,
                        branch |-> Format(locale, From, To, Layout, full, time).branch,
                        out |-> Format(locale, From, To, Layout, full, time).out]
    /\ UNCHANGED <<a, op, arg, res, err, ret, loc, skel, call>>

IntervalNext == IntervalFormatOp

IntervalSpec == AmountInit /\ [][IntervalNext]_vars

\* The seven fields of an instant in the order of their priority.
PriorityFields(t) ==
    <<t.Year, t.Month, t.Day, t.Hour \div 12, t.Hour, t.Minute, t.Second>>

\* C10: IntervalFormatter computes the greatest differing field of From and
\* To in the priority order year > month > day > half of day > hour > minute
\* > second: "y", "M", "d", "a", the hour symbol ("H" when the resolved time
\* pattern contains 'H', else "h"), "m", "s" for the first field of that
\* order that differs, and the empty string only when all seven are equal.
C10_GreatestDifference ==
    ivl.op = "Format" =>
        LET differ == {k \in 1..7 :
                        PriorityFields(ivl.From)[k] # PriorityFields(ivl.To)[k]}
            symbols == <<"y", "M", "d", "a",
                         IF HasByte(ivl.timePattern, "H") THEN "H" ELSE "h",
                         "m", "s">>
        IN  /\ differ # {} => ivl.greatestDifference = symbols[MinOf(differ)]
            /\ differ = {} <=> ivl.greatestDifference = ""

\* Same day, 11 o'clock to 13 o'clock: the half of the day comes before the
\* hour.
C10_Witness ==
    /\ ivl.op = "Format"
    /\ ivl.From.Day = ivl.To.Day
    /\ ivl.From.Hour = 11
    /\ ivl.To.Hour = 13
    /\ ivl.greatestDifference = "a"

\* The generic join pattern of a locale around two rendered texts.
JoinOf(locale, x, y) ==
    ReplaceAll(ReplaceAll(
        Lits(ValueAt(FormatAt(locale.DatetimeIntervalFormat, <<>>), "")),
        Lits(<<"{", "0", "}">>), x), Lits(<<"{", "1", "}">>), y)

\* The combining pattern of a layout rendered around a date and a time text.
CombineOf(pattern, t, date, time) ==
    ReplaceAll(ReplaceAll(formatTime(pattern, t), Lits(<<"{", "1", "}">>), date),
               Lits(<<"{", "0", "}">>), time)

\* The fields of a rendered text.
FieldsOf(text) == {text[i] : i \in {k \in 1..Len(text) : text[k].N > 0}}

\* Every field of the pattern whose text differs between the two instants
\* is in the output for both.
ShowsBoth(out, pattern, From, To) ==
    \A i \in 1..Len(formatTime(pattern, From)) :
        LET x == formatTime(pattern, From)[i]
            y == formatTime(pattern, To)[i]
        IN  x.N > 0 /\ x.Value # y.Value =>
                /\ \E e \in FieldsOf(out) : e.Symbol = x.Symbol /\ e.Value = x.Value
                /\ \E e \in FieldsOf(out) : e.Symbol = y.Symbol /\ e.Value = y.Value

\* C11: a match of the full pattern in the interval formats is always used.
\* Without one, (a) a greatest difference in a date field (y, M, d) gives the
\* generic join pattern around From and To, each rendered through the full
\* pattern; (b) a greatest difference in a time field (a, H, h, m, s) gives
\* the date rendered once, from From, and the time rendered through the
\* interval pattern matched on the time pattern; (c) when that lookup fails
\* too, the date rendered once from From is combined with the generic join
\* of the times of From and To, each rendered on its own.
C11_FallbackOrder ==
    ivl.op = "Format" =>
        LET locale == FormatLocale(ivl.languager)
            p == layoutToPatterns(locale, ivl.Layout)
            date == formatTime(p.datePattern, ivl.From)
        IN  /\ ivl.full.ok => ivl.out = formatInterval(ivl.full.pattern, ivl.From, ivl.To)
            /\ ~ivl.full.ok /\ ivl.greatestDifference \in {"y", "M", "d"} =>
                  ivl.out = JoinOf(locale, formatTime(ivl.fullPattern, ivl.From),
                                   formatTime(ivl.fullPattern, ivl.To))
            /\ ~ivl.full.ok /\ ivl.greatestDifference \in TimeDifferences =>
                  /\ ShowsBoth(ivl.out, ivl.fullPattern, ivl.From, ivl.To)
                  /\ p.datePattern # <<>> /\ p.timePattern # <<>> =>
                        ivl.out =
                            CombineOf(p.pattern, ivl.From, date,
                                IF ivl.time.ok
                                THEN formatInterval(ivl.time.pattern, ivl.From, ivl.To)
                                ELSE JoinOf(locale,
                                            formatTime(p.timePattern, ivl.From),
                                            formatTime(p.timePattern, ivl.To)))

(***************************************************************************)
(* duration.go: DurationFormatter.  A time.Duration is an int64 count of   *)
(* nanoseconds; it is kept as its sign and the two digits of its magnitude *)
(* in base 10^9 (whole seconds and nanoseconds), with the whole seconds    *)
(* below MaxSeconds.  A layout is the sequence of its parts: "approx" is   *)
(* the prefix U+2248, then the name, then the parts of a "[min,max]"       *)
(* suffix.                                                                 *)
(***************************************************************************)

Billion == 1000000000

Duration(neg, s, ns) == [neg |-> neg, s |-> s, ns |-> ns]

\* d == 0, d < 0, -d
IsZero(d) == d.s = 0 /\ d.ns = 0

IsNegative(d) == d.neg /\ ~IsZero(d)

Negate(d) == Duration(~d.neg, d.s, d.ns)

\* unitType and unitSize of DurationFormatter.Format: the size of a unit as
\* whole seconds and nanoseconds.
unitType ==
    <<"week", "day", "hour", "minute", "second", "millisecond", "microsecond",
      "nanosecond">>

unitSize ==
    <<Duration(FALSE, 7 * 24 * 3600, 0), Duration(FALSE, 24 * 3600, 0),
      Duration(FALSE, 3600, 0), Duration(FALSE, 60, 0), Duration(FALSE, 1, 0),
      Duration(FALSE, 0, 1000000), Duration(FALSE, 0, 1000), Duration(FALSE, 0, 1)>>

\* num / size and num % size of a non-negative num: a size is a multiple or
\* a divisor of 10^9 nanoseconds.
QuotBy(num, size) ==
    IF size.s > 0 THEN num.s \div size.s
    ELSE (num.s * (Billion \div size.ns)) + (num.ns \div size.ns)

RemBy(num, size) ==
    IF size.s > 0 THEN Duration(FALSE, num.s % size.s, num.ns)
    ELSE Duration(FALSE, 0, num.ns % size.ns)

\* _, ok := locale.Unit["duration-" + unit]
HasUnit(locale, unit) == unit \in DOMAIN locale.Unit

DurationLong == "second"

DurationShort == "sec"

DurationNarrow == "s"

DurationTime == "15:04"

DurationDigital == "15:04:05"

DurationNames == {DurationLong, DurationShort, DurationNarrow}

\* The Count of a unit for the layout name.
CountOf(locale, unit, name) ==
    CASE name = DurationLong -> locale.Unit[unit].Long
      [] name = DurationShort -> locale.Unit[unit].Short
      [] OTHER -> locale.Unit[unit].Narrow

\* The phrase of a count: count.One for 1, else count.Other, with "{0}"
\* replaced by the decimal count.
Phrase(count, n) ==
    ReplaceAll(IF n = 1 THEN count.One ELSE count.Other, <<"{", "0", "}">>, NatDigits(n))

AppendPhraseAfterSign(b, phrase) ==
    (IF 0 < Len(b) THEN b \o <<" ">> ELSE b) \o phrase

\* b with the phrase appended, behind a space when b is longer than a sign.
AppendPhrase(b, phrase) ==
    (IF 1 < Len(b) THEN b \o <<" ">> ELSE b) \o phrase

\* fmt.Sprintf("%02d", n)
Pad2(n) == IF n < 10 THEN <<"0">> \o NatDigits(n) ELSE NatDigits(n)

RECURSIVE DurationLoopWithoutRemainder(_, _, _, _, _, _)
DurationLoopWithoutRemainder(locale, name, approximate, num, i, b) ==
    IF IsZero(num) \/ i > Len(unitType) THEN [written |-> TRUE, b |-> b]
    ELSE IF ~HasUnit(locale, unitType[i]) \/ QuotBy(num, unitSize[i]) = 0
         THEN DurationLoopWithoutRemainder(locale, name, approximate, num, i + 1, b)
    ELSE IF name \notin DurationNames THEN [written |-> FALSE, b |-> <<>>]
    ELSE IF approximate
         THEN [written |-> TRUE,
               b |-> AppendPhrase(b, Phrase(CountOf(locale, unitType[i], name),
                                            QuotBy(num, unitSize[i])))]
    ELSE DurationLoopWithoutRemainder(locale, name, approximate, num, i + 1,
                      AppendPhrase(b, Phrase(CountOf(locale, unitType[i], name),
                                             QuotBy(num, unitSize[i]))))

\* The loop of DurationFormatter.Format from unit i: what is written, or
\* nothing for a layout name that is none of the three.
RECURSIVE DurationLoop(_, _, _, _, _, _)
DurationLoop(locale, name, approximate, num, i, b) ==
    IF IsZero(num) \/ i > Len(unitType) THEN [written |-> TRUE, b |-> b]
    ELSE IF ~HasUnit(locale, unitType[i]) \/ QuotBy(num, unitSize[i]) = 0
         THEN DurationLoop(locale, name, approximate, num, i + 1, b)
    ELSE IF name \notin DurationNames THEN [written |-> FALSE, b |-> <<>>]
    ELSE IF approximate
         THEN [written |-> TRUE,
               b |-> AppendPhrase(b, Phrase(CountOf(locale, unitType[i], name),
                                            QuotBy(num, unitSize[i])))]
    ELSE DurationLoop(locale, name, approximate, RemBy(num, unitSize[i]), i + 1,
                      AppendPhrase(b, Phrase(CountOf(locale, unitType[i], name),
                                             QuotBy(num, unitSize[i]))))

\* strings.HasPrefix(layout, "≈") and strings.TrimPrefix(layout, "≈")
IsApproximate(Layout) == Len(Layout) > 0 /\ Layout[1] = "approx"

TrimApproximate(Layout) == IF IsApproximate(Layout) THEN Tail(Layout) ELSE Layout

\* f.Layout as the switch compares it: the name of a layout of one part.
LayoutName(Layout) == IF Len(Layout) = 1 THEN Layout[1] ELSE ""

\* DurationFormatter.Format: what it writes to the state.
DurationFormat(locale, d, Layout) ==
    LET sign == IF IsNegative(d) THEN <<"-">> ELSE <<>>
        num == Duration(FALSE, d.s, d.ns)
        hours == num.s \div 3600
        minutes == (num.s \div 60) - (hours * 60)
        seconds == num.s - (hours * 3600) - (minutes * 60)
    IN  IF IsZero(d) THEN [written |-> FALSE, b |-> <<>>]
        ELSE IF LayoutName(Layout) = DurationTime
        THEN [written |-> TRUE,
              b |-> sign \o Pad2(hours) \o <<":">> \o Pad2(minutes)]
        ELSE IF LayoutName(Layout) = DurationDigital
        THEN [written |-> TRUE,
              b |-> IF 0 < hours
                    THEN sign \o NatDigits(hours) \o <<":">> \o Pad2(minutes)
                         \o <<":">> \o Pad2(seconds)
                    ELSE sign \o NatDigits(minutes) \o <<":">> \o Pad2(seconds)]
        ELSE DurationLoop(locale, LayoutName(TrimApproximate(Layout)),
                          IsApproximate(Layout), num, 1, sign)

MaxSeconds == 2000000

DurationSeconds ==
    {0, 1, 2, 59, 60, 61, 3600, 3661, 18120, 19740, 19800, 86400, 129600, 604800,
     694861, 1299599}

DurationNanos == {0, 1, 1000, 2001000, 500000000, 999999999}

Durations ==
    {Duration(neg, s, ns) : neg \in BOOLEAN,
                            s \in {x \in DurationSeconds : x < MaxSeconds},
                            ns \in DurationNanos}
    \ {Duration(TRUE, 0, 0)}

DurationLayouts ==
    { <<"second">>, <<"sec">>, <<"s">>, <<"approx", "second">>, <<"approx", "sec">>,
      <<"approx", "s">>, <<"15:04">>, <<"15:04:05">>, <<"minute">>, <<>> }

DurationFormatOp ==
    /\ call.op = "idle"
    /\ \E d \in Durations, Layout \in DurationLayouts, languager \in Languagers :
        call' = [op |-> "DurationFormatter", Duration |-> d, Layout |-> Layout,
                 languager |-> languager,
                 written |-> DurationFormat(FormatLocale(languager), d, Layout).written,
                 b |-> DurationFormat(FormatLocale(languager), d, Layout).b]
    /\ UNCHANGED <<a, op, arg, res, err, ret, loc, skel, ivl>>

DurationNext == DurationFormatOp

DurationSpec == AmountInit /\ [][DurationNext]_vars

\* The eight bucket counts of a magnitude, week first.
Buckets(d) ==
    <<d.s \div 604800, (d.s % 604800) \div 86400, (d.s % 86400) \div 3600,
      (d.s % 3600) \div 60, d.s % 60, d.ns \div 1000000, (d.ns \div 1000) % 1000,
      d.ns % 1000>>

\* The phrases of the non-zero buckets from bucket i on, each behind sep
\* except the first.
RECURSIVE BucketText(_, _, _, _, _)
BucketText(locale, name, d, i, first) ==
    IF i > 8 THEN <<>>
    ELSE IF Buckets(d)[i] = 0 THEN BucketText(locale, name, d, i + 1, first)
    ELSE (IF first THEN <<>> ELSE <<" ">>)
         \o ReplaceAll(IF Buckets(d)[i] = 1
                       THEN CountOf(locale, unitType[i], name).One
                       ELSE CountOf(locale, unitType[i], name).Other,
                       <<"{", "0", "}">>, NatDigits(Buckets(d)[i]))
         \o BucketText(locale, name, d, i + 1, FALSE)

\* The locale of the call has the eight units.
HasDurationUnits(locale) == \A i \in 1..8 : HasUnit(locale, unitType[i])

FirstBucket(d) == MinOf({i \in 1..8 : Buckets(d)[i] # 0})

\* Twice the magnitude r is at least the size of a unit.
AtLeastHalf(r, size) ==
    IF size.s > 0
    THEN \/ size.s - (2 * r.s) <= 0
         \/ size.s - (2 * r.s) = 1 /\ 2 * r.ns >= Billion
    ELSE 2 * r.ns >= size.ns

\* C13: DurationFormatter with a layout prefixed with U+2248 writes a single
\* phrase, for the first non-zero bucket, whose count is one more when the
\* remainder below the bucket is at least half of the bucket's unit: 5 hours
\* 30 minutes is "6 hours", 5 hours 29 minutes is "5 hours".
C13_ApproximateRounds ==
    (/\ call.op = "DurationFormatter"
     /\ IsApproximate(call.Layout)
     /\ LayoutName(TrimApproximate(call.Layout)) \in DurationNames
     /\ ~IsZero(call.Duration)
     /\ HasDurationUnits(FormatLocale(call.languager))) =>
        LET i == FirstBucket(call.Duration)
            r == RemBy(Duration(FALSE, call.Duration.s, call.Duration.ns), unitSize[i])
            n == Buckets(call.Duration)[i]
                 + (IF AtLeastHalf(r, unitSize[i]) THEN 1 ELSE 0)
            count == CountOf(FormatLocale(call.languager), unitType[i],
                             LayoutName(TrimApproximate(call.Layout)))
        IN  call.b = (IF call.Duration.neg THEN <<"-">> ELSE <<>>)
                     \o ReplaceAll(IF n = 1 THEN count.One ELSE count.Other,
                                   <<"{", "0", "}">>, NatDigits(n))

\* C14: DurationFormatter in exhaustive mode writes a duration of N whole
\* hours with N >= 24 as the single phrase of N hours ("36 hours" for 36
\* hours): no day and no week phrase.
C14_WholeHours ==
    (/\ call.op = "DurationFormatter"
     /\ LayoutName(call.Layout) \in DurationNames
     /\ call.Duration.ns = 0
     /\ call.Duration.s % 3600 = 0
     /\ call.Duration.s >= 24 * 3600
     /\ HasDurationUnits(FormatLocale(call.languager))) =>
        call.b = (IF call.Duration.neg THEN <<"-">> ELSE <<>>)
                 \o ReplaceAll(CountOf(FormatLocale(call.languager), "hour",
                                       LayoutName(call.Layout)).Other,
                               <<"{", "0", "}">>, NatDigits(call.Duration.s \div 3600))

(***************************************************************************)
(* duration.go: DurationIntervalFormatter.  An instant is its day (the     *)
(* number of days since 1970-01-01), the second of the day and the         *)
(* nanosecond, in UTC.  The calendar arithmetic of the package time is     *)
(* modelled by the proleptic Gregorian calendar.                           *)
(***************************************************************************)

Instant(day, s, ns) == [day |-> day, s |-> s, ns |-> ns]

\* The day number of a date of the calendar (month in 1..12, any day).
DaysFromCivil(y, m, d) ==
    LET yy == IF m <= 2 THEN y - 1 ELSE y
        era == yy \div 400
        yoe == yy - (era * 400)
        doy == (((153 * (IF m > 2 THEN m - 3 ELSE m + 9)) + 2) \div 5) + d - 1
        doe == (yoe * 365) + (yoe \div 4) - (yoe \div 100) + doy
    IN  (era * 146097) + doe - 719468

\* The date of a day number.
CivilFromDays(z) ==
    LET zz == z + 719468
        era == zz \div 146097
        doe == zz - (era * 146097)
        yoe == (doe - (doe \div 1460) + (doe \div 36524) - (doe \div 146096)) \div 365
        doy == doe - ((365 * yoe) + (yoe \div 4) - (yoe \div 100))
        mp == ((5 * doy) + 2) \div 153
        m == IF mp < 10 THEN mp + 3 ELSE mp - 9
    IN  [Year |-> yoe + (era * 400) + (IF m <= 2 THEN 1 ELSE 0), Month |-> m,
         Day |-> doy - (((153 * mp) + 2) \div 5) + 1]

\* time.Date(y, m, d, ...) of a date from 1970-01-01 on: the day of y-m-d.
Date(year, month, day) == DaysFromCivil(year, month, day)

\* t.AddDate(years, months, days): the month and the day are normalised.
AddDate(t, years, months, days) ==
    LET c == CivilFromDays(t.day)
        mm == (c.Month - 1) + months
    IN  Instant(DaysFromCivil(c.Year + years + (mm \div 12), (mm % 12) + 1, 1)
                + (c.Day - 1) + days,
                t.s, t.ns)

\* t.Add(d) for a non-negative d
AddDuration(t, d) ==
    LET ns == t.ns + d.ns
        s == t.s + d.s + (ns \div Billion)
    IN  Instant(t.day + (s \div 86400), s % 86400, ns % Billion)

\* t.Before(u)
Before(t, u) ==
    \/ t.day < u.day
    \/ t.day = u.day /\ t.s < u.s
    \/ t.day = u.day /\ t.s = u.s /\ t.ns < u.ns

\* t.Sub(u) for u not after t
SubInstant(t, u) ==
    LET borrow == IF t.ns < u.ns THEN 1 ELSE 0
    IN  Duration(FALSE, ((t.day - u.day) * 86400) + (t.s - u.s) - borrow,
                 t.ns - u.ns + (borrow * Billion))

\* d / 2
Half(d) ==
    Duration(FALSE, d.s \div 2, (d.ns + ((d.s % 2) * Billion)) \div 2)

\* d <= e of two magnitudes
DurationLeq(d, e) == d.s < e.s \/ (d.s = e.s /\ d.ns <= e.ns)

Nanosecond == 0

Microsecond == 1

Millisecond == 2

Second == 3

Minute == 4

Hour == 5

Day == 6

Week == 7

Month == 8

Year == 9

Decade == 10

Century == 11

\* The map IntervalSymbols, and its lookup.
IntervalSymbolNames ==
    <<"nanosecond", "microsecond", "millisecond", "second", "minute", "hour", "day",
      "week", "month", "year", "decade", "century">>

IsIntervalSymbol(name) == IndexOf(IntervalSymbolNames, name) # 0

IntervalSymbolOf(name) == IndexOf(IntervalSymbolNames, name) - 1

\* strings.IndexByte(f.Layout, '[') != -1 && strings.HasSuffix(f.Layout, "]")
HasRange(Layout) ==
    /\ IndexOf(Layout, "[") # 0
    /\ Layout[Len(Layout)] = "]"

\* strings.Split(..., ","): the fields between the brackets.  A field is one
\* part of the layout, or "" when nothing stands between two commas.
RECURSIVE SplitFields(_)
SplitFields(parts) ==
    IF parts = <<>> THEN <<"">>
    ELSE IF Head(parts) = "," THEN <<"">> \o SplitFields(Tail(parts))
    ELSE IF Len(parts) = 1 THEN <<Head(parts)>>
    ELSE IF parts[2] = "," THEN <<Head(parts)>> \o SplitFields(SubSeq(parts, 3, Len(parts)))
    ELSE SplitFields(Tail(parts))

RangeFields(Layout) ==
    SplitFields(SubSeq(Layout, IndexOf(Layout, "[") + 1, Len(Layout) - 1))

\* The closure write: written is set, and the phrase is appended for one of
\* the three layout names.  phrases lists the unit and the count of every
\* phrase that was appended.
write(st, locale, name, unit, n) ==
    [st EXCEPT !.written = TRUE,
               !.b = IF name \in DurationNames
                     THEN AppendPhrase(st.b, Phrase(CountOf(locale, unit, name), n))
                     ELSE st.b,
               !.phrases = IF name \in DurationNames
                           THEN Append(st.phrases, <<unit, n>>)
                           ELSE st.phrases]

\* for !end.Before(start.AddDate(y, m, d)) { start = start.AddDate(y, m, d); n++ }
RECURSIVE CountLoop(_, _, _, _, _, _)
CountLoop(start, end, years, months, days, n) ==
    IF Before(end, AddDate(start, years, months, days)) THEN [start |-> start, n |-> n]
    ELSE CountLoop(AddDate(start, years, months, days), end, years, months, days, n + 1)

\* The instant from which a block of a calendar unit rounds up.
HalfPoint(start, symbol) ==
    CASE symbol = Century -> AddDate(start, 50, 0, 0)
      [] symbol = Decade -> AddDate(start, 5, 0, 0)
      [] symbol = Year -> AddDate(start, 0, 6, 0)
      [] symbol = Month ->
            AddDuration(start, Half(SubInstant(AddDate(start, 0, 1, 0), start)))
      [] symbol = Week ->
            AddDuration(start, Half(SubInstant(AddDate(start, 0, 0, 7), start)))
      [] OTHER -> AddDuration(start, Duration(FALSE, 12 * 3600, 0))

\* The end of the block of one calendar unit, behind its counting loop: c is
\* the start and the count that the loop left.
CalendarRound(st, locale, name, approximate, minUnit, end, unit, symbol, c) ==
    LET up == /\ approximate \/ minUnit = symbol
              /\ ~Before(end, HalfPoint(c.start, symbol))
        n == c.n + (IF up THEN 1 ELSE 0)
    IN  CHOOSE done \in
            {IF 0 < n \/ (minUnit = symbol /\ ~st.written)
             THEN write(moved, locale, name, unit, n)
             ELSE moved :
                moved \in {[st EXCEPT !.start = IF up THEN end ELSE c.start]}} : TRUE

\* The block of one calendar unit.
CalendarBlock(st, locale, name, approximate, minUnit, maxUnit, end, unit, symbol, years, months, days) ==
    IF ~(HasUnit(locale, unit) /\ minUnit <= symbol /\ symbol <= maxUnit) THEN st
    ELSE CHOOSE done \in
             {CalendarRound(st, locale, name, approximate, minUnit, end, unit, symbol, c) :
                 c \in {CountLoop(st.start, end, years, months, days, 0)}} : TRUE

\* unitSize, unitSymbol and unitType of the loop below the day.
intervalUnitSize ==
    <<Duration(FALSE, 3600, 0), Duration(FALSE, 60, 0), Duration(FALSE, 1, 0),
      Duration(FALSE, 0, 1000000), Duration(FALSE, 0, 1000), Duration(FALSE, 0, 1)>>

intervalUnitSymbol == <<Hour, Minute, Second, Millisecond, Microsecond, Nanosecond>>

intervalUnitType ==
    <<"hour", "minute", "second", "millisecond", "microsecond", "nanosecond">>

\* n of one iteration: the quotient, one more when the remainder is at least
\* half of the unit (in integers) in approximate mode or at the minimum unit.
IntervalCount(approximate, minUnit, num, i) ==
    QuotBy(num, intervalUnitSize[i])
    + (IF /\ approximate \/ minUnit = intervalUnitSymbol[i]
          /\ DurationLeq(Half(intervalUnitSize[i]), RemBy(num, intervalUnitSize[i]))
       THEN 1 ELSE 0)

\* The loop over the units below the day, from unit i.
RECURSIVE IntervalLoop(_, _, _, _, _, _, _, _)
IntervalLoop(st, locale, name, approximate, minUnit, maxUnit, num, i) ==
    IF IsZero(num) \/ i > Len(intervalUnitSymbol) \/ ~(minUnit <= intervalUnitSymbol[i])
    THEN st
    ELSE IF ~(HasUnit(locale, intervalUnitType[i]) /\ intervalUnitSymbol[i] <= maxUnit)
    THEN IntervalLoop(st, locale, name, approximate, minUnit, maxUnit, num, i + 1)
    ELSE IF ~(\/ IntervalCount(approximate, minUnit, num, i) # 0
              \/ minUnit = intervalUnitSymbol[i] /\ ~st.written)
    THEN IntervalLoop(st, locale, name, approximate, minUnit, maxUnit, num, i + 1)
    ELSE IF approximate
    THEN write(st, locale, name, intervalUnitType[i],
               IntervalCount(approximate, minUnit, num, i))
    ELSE IntervalLoop(write(st, locale, name, intervalUnitType[i],
                            IntervalCount(approximate, minUnit, num, i)),
                      locale, name, approximate, minUnit, maxUnit,
                      RemBy(num, intervalUnitSize[i]), i + 1)

\* The blocks of the calendar units, in the order of the code: the unit, its
\* symbol and the step of its loop in years, months and days.
calendarUnits ==
    <<<<"century", Century, 100, 0, 0>>, <<"decade", Decade, 10, 0, 0>>,
      <<"year", Year, 1, 0, 0>>, <<"month", Month, 0, 1, 0>>,
      <<"week", Week, 0, 0, 7>>, <<"day", Day, 0, 0, 1>>>>

\* The blocks of the calendar units from block i on, each on the state that
\* the block before it left.
RECURSIVE CalendarBlocks(_, _, _, _, _, _, _, _)
CalendarBlocks(st, locale, name, approximate, minUnit, maxUnit, end, i) ==
    IF i > Len(calendarUnits) THEN st
    ELSE CHOOSE done \in
             {CalendarBlocks(next, locale, name, approximate, minUnit, maxUnit, end, i + 1) :
                 next \in {CalendarBlock(st, locale, name, approximate, minUnit, maxUnit,
                                         end, calendarUnits[i][1], calendarUnits[i][2],
                                         calendarUnits[i][3], calendarUnits[i][4],
                                         calendarUnits[i][5])}} : TRUE

\* DurationIntervalFormatter.Format: the bytes it writes, the phrases in
\* them, and whether the closure write was called.  A range with a single
\* field makes fields[1] panic.
DurationIntervalFormat(locale, anchor, d, Layout) ==
    LET approximate == IsApproximate(Layout)
        layout == TrimApproximate(Layout)
        fields == RangeFields(layout)
        minUnit == IF HasRange(layout) /\ IsIntervalSymbol(fields[1])
                   THEN IntervalSymbolOf(fields[1]) ELSE Nanosecond
        maxUnit == IF HasRange(layout) /\ IsIntervalSymbol(fields[2])
                   THEN IntervalSymbolOf(fields[2]) ELSE Century
        name == LayoutName(IF HasRange(layout)
                           THEN SubSeq(layout, 1, IndexOf(layout, "[") - 1)
                           ELSE layout)
        end == AddDuration(anchor, Duration(FALSE, d.s, d.ns))
    IN  IF HasRange(layout) /\ Len(fields) < 2
        THEN [panic |-> TRUE, written |-> FALSE, b |-> <<>>, phrases |-> <<>>]
        ELSE CHOOSE r \in
                 {[panic |-> FALSE, written |-> done.written, b |-> done.b,
                   phrases |-> done.phrases] :
                     done \in
                         {IntervalLoop(days, locale, name, approximate, minUnit, maxUnit,
                                       SubInstant(end, days.start), 1) :
                             days \in
                                 {CalendarBlocks([start |-> anchor, written |-> FALSE,
                                                  phrases |-> <<>>,
                                                  b |-> IF IsNegative(d) THEN <<"-">>
                                                        ELSE <<>>],
                                                 locale, name, approximate, minUnit,
                                                 maxUnit, end, 1)}}} : TRUE

MaxIntervalSeconds == 40000000

IntervalAnchors == {Instant(Date(2025, 1, 1), 0, 0), Instant(Date(2024, 1, 31), 43200, 0)}

IntervalDurations ==
    {Duration(FALSE, x[1], x[2]) :
        x \in {y \in {<<0, 0>>, <<0, 1>>, <<0, 1500>>, <<10, 0>>, <<90, 0>>, <<5400, 0>>,
                      <<7180, 0>>, <<93600, 0>>, <<129600, 0>>, <<171600, 0>>, <<345600, 0>>, <<2678399, 0>>,
                      <<2678400, 0>>, <<34560000, 0>>} : y[1] < MaxIntervalSeconds}}
    \cup {Duration(TRUE, 129600, 0)}

DurationIntervalLayouts ==
    { <<"second">>, <<"sec">>, <<"approx", "second">>, <<"time">>,
      <<"second", "[", "minute", ",", "hour", "]">>,
      <<"second", "[", "day", ",", "year", "]">>,
      <<"second", "[", "hour", ",", "week", "]">>,
      <<"approx", "second", "[", "day", ",", "month", "]">>,
      <<"second", "[", "day", "]">> }

DurationIntervalFormatOp ==
    /\ call.op = "idle"
    /\ \E anchor \in IntervalAnchors, d \in IntervalDurations,
          Layout \in DurationIntervalLayouts, languager \in Languagers :
        call' = [op |-> "DurationIntervalFormatter", Time |-> anchor, Duration |-> d,
                 Layout |-> Layout, languager |-> languager,
                 panic |-> DurationIntervalFormat(FormatLocale(languager), anchor, d,
                                                  Layout).panic,
                 phrases |-> DurationIntervalFormat(FormatLocale(languager), anchor, d,
                                                    Layout).phrases,
                 b |-> DurationIntervalFormat(FormatLocale(languager), anchor, d,
                                              Layout).b]
    /\ UNCHANGED <<a, op, arg, res, err, ret, loc, skel, ivl>>

DurationIntervalNext == DurationIntervalFormatOp

DurationIntervalSpec == AmountInit /\ [][DurationIntervalNext]_vars

\* The locale of the call has the twelve units of the interval formatter.
HasIntervalUnits(locale) == \A i \in 1..12 : HasUnit(locale, IntervalSymbolNames[i])

\* t after n steps of the calendar, each of the given years, months and days.
RECURSIVE AddTimes(_, _, _, _, _)
AddTimes(t, years, months, days, n) ==
    IF n = 0 THEN t ELSE AddTimes(AddDate(t, years, months, days), years, months, days, n - 1)

\* n times the size of a unit below the day.
TimesSize(size, n) ==
    Duration(FALSE, (n * size.s) + ((n * size.ns) \div Billion), (n * size.ns) % Billion)

\* t with the count of one phrase added: a calendar unit by the calendar, a
\* unit below the day as a span of fixed length.
AddPhrase(t, phrase) ==
    IF \E i \in 1..Len(calendarUnits) : calendarUnits[i][1] = phrase[1]
    THEN LET u == calendarUnits[CHOOSE i \in 1..Len(calendarUnits) :
                                    calendarUnits[i][1] = phrase[1]]
         IN  AddTimes(t, u[3], u[4], u[5], phrase[2])
    ELSE AddDuration(t, TimesSize(intervalUnitSize[IndexOf(intervalUnitType, phrase[1])],
                                  phrase[2]))

\* t with the counts of the phrases from phrase i on added, in their order.
RECURSIVE AddPhrases(_, _, _)
AddPhrases(t, phrases, i) ==
    IF i > Len(phrases) THEN t
    ELSE CHOOSE r \in {AddPhrases(u, phrases, i + 1) : u \in {AddPhrase(t, phrases[i])}} : TRUE

IsExhaustiveCall ==
    /\ call.op = "DurationIntervalFormatter"
    /\ call.Layout \in {<<"second">>, <<"sec">>, <<"s">>}
    /\ HasIntervalUnits(FormatLocale(call.languager))

IsEnglishExample(seconds) ==
    /\ call.op = "DurationIntervalFormatter"
    /\ call.languager = [ok |-> TRUE, tag |-> <<"en">>]
    /\ call.Time = Instant(Date(2025, 1, 1), 0, 0)
    /\ call.Duration = Duration(FALSE, seconds, 0)

\* C15: DurationIntervalFormatter in exhaustive mode with no range is
\* calendar-correct: adding the counts of the emitted phrases to the anchor
\* Time, in their order, the calendar units by the calendar and the units
\* below the day as fixed spans, gives exactly Time plus the magnitude of the
\* duration; for en and the anchor 2025-01-01, 36 hours gives
\* "1 day 12 hours", 31 days gives "1 month", and one second less than 31
\* days gives "4 weeks 2 days 23 hours 59 minutes 59 seconds".
C15_CalendarCorrect ==
    /\ IsExhaustiveCall =>
          AddPhrases(call.Time, call.phrases, 1)
          = AddDuration(call.Time, Duration(FALSE, call.Duration.s, call.Duration.ns))
    /\ IsEnglishExample(129600) /\ call.Layout = <<"second">> =>
          call.b = <<"1", " ", "d", "a", "y", " ", "1", "2", " ", "h", "o", "u", "r", "s">>
    /\ IsEnglishExample(2678400) /\ call.Layout = <<"second">> =>
          call.b = <<"1", " ", "m", "o", "n", "t", "h">>
    /\ IsEnglishExample(2678399) /\ call.Layout = <<"second">> =>
          call.b = <<"4", " ", "w", "e", "e", "k", "s", " ", "2", " ", "d", "a", "y", "s", " ", "2", "3", " ", "h", "o", "u", "r", "s", " ", "5", "9", " ", "m", "i", "n", "u", "t", "e", "s", " ", "5", "9", " ", "s", "e", "c", "o", "n", "d", "s">>

\* The same for a duration of whole microseconds only, which the model
\* checker finds to hold.
ExactForWholeMicroseconds ==
    IsExhaustiveCall /\ call.Duration.ns % 1000 = 0 =>
        AddPhrases(call.Time, call.phrases, 1)
        = AddDuration(call.Time, Duration(FALSE, call.Duration.s, call.Duration.ns))

IsApproximateCall ==
    /\ call.op = "DurationIntervalFormatter"
    /\ call.Layout \in {<<"approx", "second">>, <<"approx", "sec">>, <<"approx", "s">>}
    /\ HasIntervalUnits(FormatLocale(call.languager))
    /\ ~IsZero(call.Duration)

\* C16: in approximate mode (the layout starts with the approximation sign)
\* DurationIntervalFormatter emits exactly one phrase, never a second one of
\* a smaller unit; for en and the anchor 2025-01-01, 36 hours gives "2 days"
\* and one second less than 31 days gives "1 month".
C16_ApproximateOnePhrase ==
    /\ IsApproximateCall => Len(call.phrases) = 1
    /\ IsEnglishExample(129600) /\ call.Layout = <<"approx", "second">> =>
          call.b = <<"2", " ", "d", "a", "y", "s">>
    /\ IsEnglishExample(2678399) /\ call.Layout = <<"approx", "second">> =>
          call.b = <<"1", " ", "m", "o", "n", "t", "h">>

\* The layout of the call ends in a range of two unit names, the minimum not
\* above the maximum.
IsRangeCall ==
    /\ call.op = "DurationIntervalFormatter"
    /\ HasRange(TrimApproximate(call.Layout))
    /\ Len(RangeFields(TrimApproximate(call.Layout))) = 2
    /\ \A i \in 1..2 : IsIntervalSymbol(RangeFields(TrimApproximate(call.Layout))[i])
    /\ IntervalSymbolOf(RangeFields(TrimApproximate(call.Layout))[1])
       <= IntervalSymbolOf(RangeFields(TrimApproximate(call.Layout))[2])
    /\ LayoutName(SubSeq(TrimApproximate(call.Layout), 1,
                         IndexOf(TrimApproximate(call.Layout), "[") - 1)) \in DurationNames
    /\ HasIntervalUnits(FormatLocale(call.languager))

RangeMin == IntervalSymbolOf(RangeFields(TrimApproximate(call.Layout))[1])

RangeMax == IntervalSymbolOf(RangeFields(TrimApproximate(call.Layout))[2])

\* Every phrase of the call is for a unit of the range.
PhrasesInRange ==
    \A i \in 1..Len(call.phrases) :
        /\ RangeMin <= IntervalSymbolOf(call.phrases[i][1])
        /\ IntervalSymbolOf(call.phrases[i][1]) <= RangeMax

\* C17: with a range "[minUnit,maxUnit]" behind the layout, every emitted
\* phrase is for a unit from minUnit to maxUnit, and the output has at least
\* one phrase: when no unit of the range has a count, the minimum unit is
\* emitted with a zero or rounded count, for a zero duration too, and for a
\* minimum unit of the calendar and one below the day alike.
C17_RangeAlwaysPhrase ==
    IsRangeCall => PhrasesInRange /\ Len(call.phrases) >= 1

\* What the model checker finds to hold of a range: the phrases are in the
\* range, and there is one unless the duration is zero and the minimum unit
\* is below the day.
RangePhraseUnlessZero ==
    IsRangeCall =>
        /\ PhrasesInRange
        /\ Len(call.phrases) >= 1 \/ (IsZero(call.Duration) /\ RangeMin < Day)

(***************************************************************************)
(* Rounding of the whole dropped remainder                                 *)
(***************************************************************************)

\* v rounded to the nearest multiple of 10^prec, a remainder of exactly half
\* of 10^prec going to the even multiple.
NearestMultiple(v, prec) == HalfEvenDiv(v, Pow10(prec)) * Pow10(prec)

\* C20: Amount.Round is round-half-to-even of the whole dropped remainder:
\* for the rounding step s of the Amount (10^3, 10^4 or 10^5 internal units)
\* the result is the multiple of s nearest to the stored value, and only a
\* remainder of exactly s/2 goes to the even multiple; EUR 16.50510 (stored
\* 1650510) rounds to 16.51 (stored 1651000).  (Stated for the Amounts that
\* are not negative and whose result fits in a word.)
C20_RoundHalfEvenWhole ==
    (/\ op = "Round"
     /\ a.amount >= 0
     /\ RoundPrec(a.rounding) >= 0
     /\ InRange(NearestMultiple(a.amount, RoundPrec(a.rounding))))
        => res.amount = NearestMultiple(a.amount, RoundPrec(a.rounding))

(***************************************************************************)
(* currency.go: AmountFormatter.  A layout and a pattern are the bytes of  *)
(* their text.                                                             *)
(***************************************************************************)

CurrencyAmount == <<"1", "0", "0">>

CurrencyISO == <<"U", "S", "D", " ", "1", "0", "0">>

CurrencyStandard == <<"U", "S", "$", " ", "1", "0", "0">>

CurrencyNarrow == <<"$", "1", "0", "0">>

\* The loop over the bytes behind the dot, from byte i: a zero raises both
\* counts, a nine the maximum, any other byte ends the loop.
RECURSIVE DecimalsLoop(_, _, _, _)
DecimalsLoop(suffix, i, minDecimals, maxDecimals) ==
    IF i > Len(suffix) THEN [min |-> minDecimals, max |-> maxDecimals]
    ELSE IF suffix[i] = "0" THEN DecimalsLoop(suffix, i + 1, maxDecimals + 1, maxDecimals + 1)
    ELSE IF suffix[i] = "9" THEN DecimalsLoop(suffix, i + 1, minDecimals, maxDecimals + 1)
    ELSE [min |-> minDecimals, max |-> maxDecimals]

\* minDecimals, maxDecimals and f.Layout after the suffix is parsed.  For the
\* empty layout dot and len(f.Layout)-1 are both -1 and f.Layout[:dot]
\* panics.
ParseDecimals(Layout, digits) ==
    IF IndexOf(Layout, ".") = Len(Layout)
    THEN [panic |-> Layout = <<>>, min |-> digits, max |-> digits,
          Layout |-> SubSeq(Layout, 1, Len(Layout) - 1)]
    ELSE IF IndexOf(Layout, ".") # 0
    THEN [panic |-> FALSE,
          min |-> DecimalsLoop(SubSeq(Layout, IndexOf(Layout, ".") + 1, Len(Layout)),
                               1, 0, 0).min,
          max |-> DecimalsLoop(SubSeq(Layout, IndexOf(Layout, ".") + 1, Len(Layout)),
                               1, 0, 0).max,
          Layout |-> SubSeq(Layout, 1, IndexOf(Layout, ".") - 1)]
    ELSE [panic |-> FALSE, min |-> 0, max |-> digits, Layout |-> Layout]

\* locale.Currency[unit] of a Go map: the zero Currency for a unit that is no
\* key.
CurrencyAt(locale, unit) ==
    IF unit \in DOMAIN locale.Currency THEN locale.Currency[unit]
    ELSE Currency(<<>>, <<>>, <<>>)

\* unicode.IsLetter on the runes of the symbols of the model: the letters of
\* ASCII.
Letters ==
    {"A", "B", "C", "D", "E", "F", "G", "H", "I", "J", "K", "L", "M", "N", "O", "P", "Q",
     "R", "S", "T", "U", "V", "W", "X", "Y", "Z", "a", "b", "c", "d", "e", "f", "g", "h",
     "i", "j", "k", "l", "m", "n", "o", "p", "q", "r", "s", "t", "u", "v", "w", "x", "y",
     "z"}

hasLetter(symbol) == \E i \in 1..Len(symbol) : symbol[i] \in Letters

\* symbol and pattern of the switch on f.Layout
SymbolAndPattern(locale, unit, Layout) ==
    CASE Layout = CurrencyISO ->
            [symbol |-> UnitString(unit), pattern |-> locale.CurrencyFormat.ISO]
      [] Layout = CurrencyStandard ->
            [symbol |-> CurrencyAt(locale, unit).Standard,
             pattern |-> IF hasLetter(CurrencyAt(locale, unit).Standard)
                         THEN locale.CurrencyFormat.ISO
                         ELSE locale.CurrencyFormat.Standard]
      [] Layout = CurrencyNarrow ->
            [symbol |-> CurrencyAt(locale, unit).Narrow,
             pattern |-> locale.CurrencyFormat.Standard]
      [] Layout = CurrencyAmount ->
            [symbol |-> <<>>, pattern |-> locale.CurrencyFormat.Amount]
      [] OTHER -> [symbol |-> <<>>, pattern |-> <<>>]

\* The pattern of the sign of the amount, when the pattern has two.
SignPattern(pattern, negative) ==
    IF IndexOf(pattern, ";") = 0 THEN pattern
    ELSE IF negative THEN SubSeq(pattern, IndexOf(pattern, ";") + 1, Len(pattern))
    ELSE SubSeq(pattern, 1, IndexOf(pattern, ";") - 1)

\* var amount int64, set only when there are digits to round away.
RoundedAmount(x, maxDecimals) ==
    IF 0 < AmountPrecision + x.digits - maxDecimals
    THEN Quot(bankersRounding(x.amount, AmountPrecision + x.digits - maxDecimals),
              int64Scales(AmountPrecision + x.digits - maxDecimals))
    ELSE 0

\* for minDecimals < dec && amount%10 == 0 { amount /= 10; dec-- }
RECURSIVE TrimDecimals(_, _, _)
TrimDecimals(amount, dec, minDecimals) ==
    IF minDecimals < dec /\ Rem(amount, 10) = 0
    THEN TrimDecimals(Quot(amount, 10), dec - 1, minDecimals)
    ELSE [amount |-> amount, dec |-> dec]

\* The digits of the integer part with the group symbol between groups of
\* groupSize digits, counted from the right.
RECURSIVE Grouped(_, _, _)
Grouped(digits, groupSize, groupSym) ==
    IF groupSize <= 0 \/ groupSym = <<"0x00">> \/ Len(digits) <= groupSize THEN digits
    ELSE Grouped(SubSeq(digits, 1, Len(digits) - groupSize), groupSize, groupSym)
         \o groupSym \o SubSeq(digits, Len(digits) - groupSize + 1, Len(digits))

\* strconv.AppendNumber(nil, price, dec, groupSize, groupSym, decSym): the
\* sign, the grouped integer part, and dec decimals behind the decimal symbol.
AppendGroupedNumber(price, dec, groupSize, groupSym, decSym) ==
    (IF price < 0 THEN <<"-">> ELSE <<>>)
    \o Grouped(NatDigits(AbsInt(price) \div Pow10(dec)), groupSize, groupSym)
    \o (IF 0 < dec
        THEN decSym \o Zeros(dec - Len(NatDigits(AbsInt(price) % Pow10(dec))))
                    \o NatDigits(AbsInt(price) % Pow10(dec))
        ELSE <<>>)

\* utf8.DecodeRuneInString: the number of bytes of the rune that starts with
\* the byte.
RuneLen(byte) ==
    CASE byte \in {"0xC2", "0xC3"} -> 2
      [] byte = "0xE2" -> 3
      [] OTHER -> 1

\* The scan of a number pattern from byte j: the byte it stops at and the
\* positions of the last group and the decimal separator (0: none).
RECURSIVE NumberEnd(_, _, _, _)
NumberEnd(pattern, j, group, decimal) ==
    IF j > Len(pattern) THEN [j |-> j, group |-> group, decimal |-> decimal]
    ELSE IF pattern[j] = "." THEN
        IF decimal # 0 THEN [j |-> j, group |-> group, decimal |-> decimal]
        ELSE NumberEnd(pattern, j + 1, group, j)
    ELSE IF pattern[j] = "," THEN
        IF decimal # 0 THEN [j |-> j, group |-> group, decimal |-> decimal]
        ELSE NumberEnd(pattern, j + 1, j, decimal)
    ELSE IF pattern[j] \notin {"0", "#"} THEN [j |-> j, group |-> group, decimal |-> decimal]
    ELSE NumberEnd(pattern, j + 1, group, decimal)

groupSizeOf(end) ==
    IF end.decimal # 0 /\ end.group # 0 THEN end.decimal - end.group - 1 ELSE 3

\* The position of the next quote from byte j, or behind the pattern.
RECURSIVE QuoteEnd(_, _)
QuoteEnd(pattern, j) ==
    IF j > Len(pattern) \/ pattern[j] = "'" THEN j ELSE QuoteEnd(pattern, j + 1)

\* The loop over the pattern from byte i: the bytes appended.
RECURSIVE FormatPattern(_, _, _, _, _, _)
FormatPattern(pattern, i, symbol, amount, dec, locale) ==
    IF i > Len(pattern) THEN <<>>
    ELSE IF HasPrefixAt(pattern, i, <<"0xC2", "0xA4">>)
    THEN symbol \o FormatPattern(pattern, i + 2, symbol, amount, dec, locale)
    ELSE IF pattern[i] \in {"0", "#"}
    THEN AppendGroupedNumber(amount, dec, groupSizeOf(NumberEnd(pattern, i + 1, 0, 0)),
                             locale.GroupSymbol, locale.DecimalSymbol)
         \o FormatPattern(pattern, NumberEnd(pattern, i + 1, 0, 0).j, symbol, amount, dec,
                          locale)
    ELSE IF pattern[i] = "'"
    THEN SubSeq(pattern, i + 1, QuoteEnd(pattern, i + 1) - 1)
         \o FormatPattern(pattern, QuoteEnd(pattern, i + 1), symbol, amount, dec, locale)
    ELSE SubSeq(pattern, i, i + RuneLen(pattern[i]) - 1)
         \o FormatPattern(pattern, i + RuneLen(pattern[i]), symbol, amount, dec, locale)

\* AmountFormatter.Format: minDecimals and maxDecimals, the amount and the
\* number of decimals given to AppendNumber, and the bytes written.
AmountFormat(locale, x, Layout) ==
    LET parsed == ParseDecimals(Layout, x.digits)
        sp == SymbolAndPattern(locale, x.Unit, parsed.Layout)
        negative == IndexOf(sp.pattern, ";") # 0 /\ x.amount < 0
        y == IF negative THEN Neg(x) ELSE x
        number == TrimDecimals(RoundedAmount(y, parsed.max), parsed.max, parsed.min)
    IN  IF parsed.panic
        THEN [panic |-> TRUE, min |-> 0, max |-> 0, amount |-> 0, dec |-> 0, b |-> <<>>]
        ELSE [panic |-> FALSE, min |-> parsed.min, max |-> parsed.max,
              amount |-> number.amount, dec |-> number.dec,
              b |-> FormatPattern(SignPattern(sp.pattern, negative), 1, sp.symbol,
                                  number.amount, number.dec, locale)]

\* The stored amounts of the formatted Amounts, and their units.
FormatAmounts ==
    {AmountOf("EUR", n) : n \in {0, 1600000, 1601000, 1600100, 1606000, 1600600, 1610000,
                                 1650510, -1601000}}
    \cup {AmountOf("JPY", n) : n \in {16000, 16505, 8388000}}

AmountLayouts ==
    { <<"$", "1", "0", "0">>, <<"$", "1", "0", "0", ".">>, <<"$", "1", "0", "0", ".", "0">>, <<"$", "1", "0", "0", ".", "0", "0">>, <<"$", "1", "0", "0", ".", "9">>, <<"$", "1", "0", "0", ".", "9", "9">>, <<"$", "1", "0", "0", ".", "0", "9">>,
      <<"$", "1", "0", "0", ".", "0", "0", "0">>, <<"$", "1", "0", "0", ".", "0", "0", "0", "0", "0">>, <<"$", "1", "0", "0", ".", "0", "0", "0", "0", "0", "0">>, <<"$", "1", "0", "0", ".", "0", "x">>, <<"1", "0", "0">>, <<"1", "0", "0", ".", "9", "9">>,
      <<"U", "S", "$", " ", "1", "0", "0">>, <<"U", "S", "D", " ", "1", "0", "0", ".">>, <<"E", "U", "R", " ", "1", "0", "0">>, <<>> }

AmountFormatOp ==
    /\ call.op = "idle"
    /\ \E x \in FormatAmounts, Layout \in AmountLayouts, languager \in Languagers :
        call' = [op |-> "AmountFormatter", Amount |-> x, Layout |-> Layout,
                 languager |-> languager,
                 panic |-> AmountFormat(FormatLocale(languager), x, Layout).panic,
                 min |-> AmountFormat(FormatLocale(languager), x, Layout).min,
                 max |-> AmountFormat(FormatLocale(languager), x, Layout).max,
                 amount |-> AmountFormat(FormatLocale(languager), x, Layout).amount,
                 dec |-> AmountFormat(FormatLocale(languager), x, Layout).dec,
                 b |-> AmountFormat(FormatLocale(languager), x, Layout).b]
    /\ UNCHANGED <<a, op, arg, res, err, ret, loc, skel, ivl>>

AmountFormatNext == AmountFormatOp

AmountFormatSpec == AmountInit /\ [][AmountFormatNext]_vars

\* The bytes of a layout behind its first dot, and whether it has one.
HasSuffix(Layout) == IndexOf(Layout, ".") # 0

SuffixOf(Layout) == SubSeq(Layout, IndexOf(Layout, ".") + 1, Len(Layout))

ZerosOf(suffix) == Cardinality({i \in 1..Len(suffix) : suffix[i] = "0"})

NinesOf(suffix) == Cardinality({i \in 1..Len(suffix) : suffix[i] = "9"})

\* Zeros followed by nines, either of them possibly none.
IsZerosThenNines(suffix) ==
    /\ \A i \in 1..Len(suffix) : suffix[i] \in {"0", "9"}
    /\ \A i, j \in 1..Len(suffix) : (suffix[i] = "9" /\ suffix[j] = "0") => j < i

\* The minimum and the maximum number of decimals that a layout asks for.
AskedMin(Layout, digits) ==
    IF ~HasSuffix(Layout) THEN 0
    ELSE IF SuffixOf(Layout) = <<>> THEN digits
    ELSE ZerosOf(SuffixOf(Layout))

AskedMax(Layout, digits) ==
    IF ~HasSuffix(Layout) \/ SuffixOf(Layout) = <<>> THEN digits
    ELSE ZerosOf(SuffixOf(Layout)) + NinesOf(SuffixOf(Layout))

\* The stored amount v of an Amount of the given digits as a number of
\* decimals decimals, rounded half to even.
RoundedTo(v, digits, decimals) ==
    IF AmountPrecision + digits - decimals > 0
    THEN HalfEvenDiv(v, Pow10(AmountPrecision + digits - decimals))
    ELSE v * Pow10(decimals - AmountPrecision - digits)

\* A call with one of the four layouts and a suffix of zeros and nines, in a
\* locale with a pattern for it, of an Amount that is not negative and that
\* the digit below the last rendered decimal rounds to the nearest multiple.
IsAmountCall ==
    /\ call.op = "AmountFormatter"
    /\ ~call.panic
    /\ (IF HasSuffix(call.Layout)
        THEN SubSeq(call.Layout, 1, IndexOf(call.Layout, ".") - 1)
        ELSE call.Layout) \in {CurrencyAmount, CurrencyISO, CurrencyStandard, CurrencyNarrow}
    /\ HasSuffix(call.Layout) => IsZerosThenNines(SuffixOf(call.Layout))
    /\ FormatLocale(call.languager).CurrencyFormat.Standard # <<>>
    /\ call.Amount.amount >= 0
    /\ AmountPrecision + call.Amount.digits > call.max =>
          DigitRound(call.Amount.amount, AmountPrecision + call.Amount.digits - call.max)
          = NearestMultiple(call.Amount.amount,
                            AmountPrecision + call.Amount.digits - call.max)

IsRootExample(stored, Layout) ==
    /\ call.op = "AmountFormatter"
    /\ call.languager = [ok |-> FALSE, tag |-> Und]
    /\ call.Amount = AmountOf("EUR", stored)
    /\ call.Layout = Layout

\* C18: the suffix of the layout of AmountFormatter fixes the decimals: a
\* layout ending in "." gives exactly the digits of the currency, a suffix of
\* k zeros exactly k decimals, zeros followed by nines at least the zeros and
\* at most zeros plus nines, no suffix from 0 to the digits of the currency.
\* For every k (also k >= digits + 3) the rendered number is the amount
\* rounded half to even to the maximum number of decimals, the number d of
\* rendered decimals is from the minimum to the maximum, and zero decimals
\* at the end are trimmed down to the minimum.
C18_DecimalSuffix ==
    /\ IsAmountCall =>
          /\ call.min = AskedMin(call.Layout, call.Amount.digits)
          /\ call.max = AskedMax(call.Layout, call.Amount.digits)
          /\ call.min <= call.dec /\ call.dec <= call.max
          /\ call.min < call.dec => call.amount % 10 # 0
          /\ call.amount * Pow10(call.max - call.dec)
             = RoundedTo(call.Amount.amount, call.Amount.digits, call.max)
    /\ IsRootExample(1610000, <<"$", "1", "0", "0", ".", "9", "9">>) => call.b = <<"0xE2", "0x82", "0xAC", "0xC2", "0xA0", "1", "6", ".", "1">>
    /\ IsRootExample(1600100, <<"$", "1", "0", "0", ".">>) => call.b = <<"0xE2", "0x82", "0xAC", "0xC2", "0xA0", "1", "6", ".", "0", "0">>
    /\ IsRootExample(1606000, <<"$", "1", "0", "0", ".", "0">>) => call.b = <<"0xE2", "0x82", "0xAC", "0xC2", "0xA0", "1", "6", ".", "1">>

\* What the model checker finds to hold of the decimals: the counts that the
\* suffix asks for, the number of rendered decimals between them, and the
\* trimming.
DecimalCountsHold ==
    IsAmountCall =>
        /\ call.min = AskedMin(call.Layout, call.Amount.digits)
        /\ call.max = AskedMax(call.Layout, call.Amount.digits)
        /\ call.min <= call.dec /\ call.dec <= call.max
        /\ call.min < call.dec => call.amount % 10 # 0

-----------------------------------------------------------------------------
(* scanTime *)

\* b[n:]
Drop(b, n) == SubSeq(b, n + 1, Len(b))

\* parseStrconv.ParseUint(b): the value and the length of the leading run of
\* digits, (0, 0) when b starts with no digit.  The texts scanned here have
\* runs far shorter than the nineteen digits at which the parser gives up.
RECURSIVE ParseUintFrom(_, _, _)
ParseUintFrom(b, i, val) ==
    IF i <= Len(b) /\ IsDigit(b[i]) THEN ParseUintFrom(b, i + 1, (val * 10) + DigitVal(b[i]))
    ELSE [val |-> val, n |-> i - 1]

ParseUint(b) == ParseUintFrom(b, 1, 0)

\* parseStrconv.ParseFloat(b) of a b that starts with a dot, together with
\* the int64(fseconds*1e9 + 0.5) that scanTime takes of it: the dot and the
\* digits behind it are read (n bytes), a dot with no digit reads nothing.
\* The texts scanned here have no exponent and at most nine decimals.
ParseFloat(b) ==
    LET frac == ParseUint(Drop(b, 1))
    IN  IF frac.n = 0 THEN [nsec |-> 0, n |-> 0]
        ELSE [nsec |-> frac.val * Pow10(9 - frac.n), n |-> frac.n + 1]

\* time.Unix(sec, nsec) with nsec in [0, 1e9)
timeUnix(sec, nsec) == Instant(sec \div 86400, sec % 86400, nsec)

\* time.Date(year, month, day, hours, minutes, seconds, nsec, time.UTC) with
\* the month in 1..12: a day behind the end of the month is normalised into
\* the months that follow.
timeDate(year, month, day, hours, minutes, seconds, nsec) ==
    Instant(DaysFromCivil(year, month, 1) + (day - 1),
            (hours * 3600) + (minutes * 60) + seconds, nsec)

\* The ways scanTime ends: with an error and *t untouched, with *t set, or
\* with the run-time panic of an index out of range.
ScanError(dst, e) == [panic |-> FALSE, err |-> e, set |-> FALSE, t |-> dst]

ScanSet(t) == [panic |-> FALSE, err |-> "", set |-> TRUE, t |-> t]

ScanPanic(dst) == [panic |-> TRUE, err |-> "", set |-> FALSE, t |-> dst]

\* scanTime from "hours = first" on: first and n are the number read last
\* and its length, b what follows it.
scanClock(dst, year, month, day, first, n, b) ==
    IF n # 2 \/ 23 < first THEN ScanError(dst, "invalid hours")
    ELSE IF Len(b) = 0 \/ b[1] # ":" THEN ScanError(dst, "invalid time")
    ELSE
        LET minutes == ParseUint(Drop(b, 1))
            b2 == Drop(Drop(b, 1), minutes.n)
        IN  IF minutes.n # 2 \/ 59 < minutes.val THEN ScanError(dst, "invalid minutes")
            ELSE IF Len(b2) = 0
                THEN ScanSet(timeDate(year, month, day, first, minutes.val, 0, 0))
            ELSE IF b2[1] # ":" THEN ScanError(dst, "invalid time")
            ELSE
                LET seconds == ParseUint(Drop(b2, 1))
                    b3 == Drop(Drop(b2, 1), seconds.n)
                    fseconds ==
                        IF 0 < Len(b3) /\ b3[1] = "." THEN ParseFloat(b3)
                        ELSE [nsec |-> 0, n |-> 0]
                    b4 == Drop(b3, fseconds.n)
                IN  IF seconds.n # 2 \/ 59 < seconds.val
                        THEN ScanError(dst, "invalid seconds")
                    ELSE IF Len(b4) # 0 THEN ScanError(dst, "invalid time")
                    ELSE ScanSet(timeDate(year, month, day, first, minutes.val,
                                          seconds.val, fseconds.nsec))

\* The branch of scanTime for a first number that is followed by "-": year
\* and n are that number and its length, b starts with the "-".
scanDate(dst, year, n, b) ==
    IF n # 4 \/ year = 0 THEN ScanError(dst, "invalid year")
    ELSE IF Len(b) = 0 \/ b[1] # "-" THEN ScanError(dst, "invalid time")
    ELSE
        LET month == ParseUint(Drop(b, 1))
            b2 == Drop(Drop(b, 1), month.n)
        IN  IF month.n # 2 \/ month.val = 0 \/ 12 < month.val
                THEN ScanError(dst, "invalid month")
            ELSE IF Len(b2) = 0 \/ b2[1] # "-" THEN ScanError(dst, "invalid time")
            ELSE
                LET day == ParseUint(Drop(b2, 1))
                    b3 == Drop(Drop(b2, 1), day.n)
                    first == ParseUint(Drop(b3, 1))
                IN  IF day.n # 2 \/ day.val = 0 \/ 31 < day.val
                        THEN ScanError(dst, "invalid day")
                    ELSE IF Len(b3) = 0
                        THEN ScanSet(timeDate(year, month.val, day.val, 0, 0, 0, 0))
                    ELSE IF b3[1] # " " /\ b3[1] # "T" THEN ScanError(dst, "invalid time")
                    ELSE scanClock(dst, year, month.val, day.val, first.val, first.n,
                                   Drop(Drop(b3, 1), first.n))

\* The source values of scanTime: a time.Time (t), an int64 (sec), a string
\* or a []byte (text), and a value of another type.
Src(type, text, sec, t) == [type |-> type, text |-> text, sec |-> sec, t |-> t]

\* err := scanTime(&dst, isrc), with now the reading of the clock
scanTime(dst, isrc, now) ==
    IF isrc.type = "Time" THEN ScanSet(isrc.t)
    ELSE IF isrc.type = "int64" THEN ScanSet(timeUnix(isrc.sec, 0))
    ELSE IF isrc.type \notin {"string", "bytes"}
        THEN ScanError(dst, "incompatible type for time.Time")
    ELSE IF isrc.text = <<"n", "o", "w">> THEN ScanSet(now)
    ELSE
        LET first == ParseUint(isrc.text)
            b == Drop(isrc.text, first.n)
        IN  IF first.n = 0 THEN ScanError(dst, "invalid time")
            ELSE IF Len(b) = 0 THEN ScanPanic(dst)
            ELSE IF b[1] = "." THEN
                IF ParseFloat(b).n # Len(b) THEN ScanError(dst, "invalid time")
                ELSE ScanSet(timeUnix(first.val, ParseFloat(b).nsec))
            ELSE IF b[1] = "-" THEN scanDate(dst, first.val, first.n, b)
            ELSE scanClock(dst, 1, 1, 1, first.val, first.n, b)

\* The zero time.Time, January 1 of the year 1, that a destination holds
\* before the call.
ZeroTime == Instant(DaysFromCivil(1, 1, 1), 0, 0)

ScanYears == {<<"2", "0", "2", "4">>, <<"2", "0", "2", "3">>, <<"0", "0", "0", "0">>, <<"2", "4">>}

ScanMonths == {<<"0", "1">>, <<"0", "2">>, <<"0", "4">>, <<"1", "2">>, <<"1", "3">>, <<"0", "0">>, <<"2">>}

ScanDays == {<<"0", "1">>, <<"2", "8">>, <<"2", "9">>, <<"3", "0">>, <<"3", "1">>, <<"3", "2">>, <<"0", "0">>}

ScanTails == {<<>>, <<" ", "1", "2", ":", "3", "0">>, <<"T", "2", "3", ":", "5", "9", ":", "5", "9">>, <<" ", "2", "4", ":", "0", "0">>, <<" ", "1", "2", ":", "6", "0">>, <<" ", "1", "2", ":", "3", "0", ":", "6", "0">>, <<" ", "1", "2", ":", "3", "0", ":", "0", "5", ".", "0", "0", "1">>, <<"x">>, <<"T">>, <<" ", "1", "2">>}

\* Dates with what follows them, and texts of the other forms.
ScanTexts ==
    {y \o <<"-">> \o m \o <<"-">> \o d \o tail :
        y \in ScanYears, m \in ScanMonths, d \in ScanDays, tail \in ScanTails}
    \cup {<<"n", "o", "w">>, <<>>, <<"1", "2">>, <<"2", "0", "2", "4">>, <<"1", "2", ":", "3", "0">>, <<"1", "2", ":", "3", "0", ":", "0", "5">>, <<"1", "2", ":", "3", "0", ":", "0", "5", ".", "1">>, <<"5", "0", "0", "0", ".", "1">>, <<"5", "0", "0", "0", ".">>, <<"5", "0", "0", "0", ".", "1", ".", "2">>, <<"5", "0", "0", "0", "x">>, <<"1", "2", ":">>, <<"2", "0", "2", "4", "-">>, <<"2", "0", "2", "4", "-", "0", "1">>, <<"2", "0", "2", "4", "-", "0", "1", "-">>, <<"-", "5">>, <<"1", "2", ":", "3", "0", ":", "0", "5", ".">>, <<"1", "2", ":", "3", "0", "x">>, <<"1", ":", "3", "0">>, <<"a", "b", "c">>, <<"2", "4", ":", "0", "0">>, <<"1", "2", ":", "6", "0">>, <<"1", "2", ":", "3", "0", ":", "6", "0">>}

ScanSources ==
    {Src(type, text, 0, ZeroTime) : type \in {"string", "bytes"}, text \in ScanTexts}
    \cup {Src("int64", <<>>, sec, ZeroTime) : sec \in {0, 5000, 86400, -1}}
    \cup {Src("Time", <<>>, 0, Instant(20089, 43200, 0)),
          Src("float64", <<>>, 0, ZeroTime)}

\* The readings of the clock for time.Now().
ScanNows == {Instant(20454, 0, 0), Instant(20454, 3600, 500)}

\* var dst time.Time; err := scanTime(&dst, isrc)
ScanTimeOp ==
    /\ call.op = "idle"
    /\ \E isrc \in ScanSources, now \in ScanNows :
        call' = [op |-> "scanTime", src |-> isrc, now |-> now,
                 panic |-> scanTime(ZeroTime, isrc, now).panic,
                 err |-> scanTime(ZeroTime, isrc, now).err,
                 set |-> scanTime(ZeroTime, isrc, now).set,
                 t |-> scanTime(ZeroTime, isrc, now).t]
    /\ UNCHANGED <<a, op, arg, res, err, ret, loc, skel, ivl>>

ScanTimeNext == ScanTimeOp

ScanTimeSpec == AmountInit /\ [][ScanTimeNext]_vars

\* A call of scanTime on a string or on bytes.
IsScanCall == call.op = "scanTime" /\ call.src.type \in {"string", "bytes"}

IsScanOf(text) == IsScanCall /\ call.src.text = text

\* The number written at the k bytes from position i of a text.
IsNumAt(text, i, k) == i + k - 1 <= Len(text) /\ \A j \in i..(i + k - 1) : IsDigit(text[j])

NumAt(text, i, k) == ParseUint(SubSeq(text, i, i + k - 1)).val

\* A text that starts with a date written as YYYY-MM-DD, and its fields.
IsDateText(text) ==
    /\ IsNumAt(text, 1, 4) /\ IsNumAt(text, 6, 2) /\ IsNumAt(text, 9, 2)
    /\ text[5] = "-" /\ text[8] = "-"

YearOf(text) == NumAt(text, 1, 4)

MonthOf(text) == NumAt(text, 6, 2)

DayOf(text) == NumAt(text, 9, 2)

IsLeapYear(y) == (y % 4 = 0 /\ y % 100 # 0) \/ y % 400 = 0

DaysInMonth(y, m) ==
    IF m = 2 THEN (IF IsLeapYear(y) THEN 29 ELSE 28)
    ELSE IF m \in {4, 6, 9, 11} THEN 30
    ELSE 31

ScanErrors ==
    {"incompatible type for time.Time", "invalid time", "invalid year", "invalid month",
     "invalid day", "invalid hours", "invalid minutes", "invalid seconds"}

\* C19: scanTime on any string or byte input either returns an error naming
\* the failing field or sets the destination time.  It never panics (a bare
\* digit run, an empty remainder and a truncated date included), and it never
\* silently coerces an out-of-range field: a month outside 1..12, a day
\* outside 1..(days of that month), an hour above 23, a minute above 59 and
\* a second above 59 are rejected with the error of that field, so that a
\* time set from a text that starts with a date is on the day the text names.
C19_ScanTimeRejects ==
    /\ call.op = "scanTime" =>
          /\ ~call.panic
          /\ call.set <=> (call.err = "")
          /\ call.err \in ScanErrors \cup {""}
    /\ (IsScanCall /\ IsDateText(call.src.text) /\ YearOf(call.src.text) # 0) =>
          /\ MonthOf(call.src.text) \notin 1..12 => call.err = "invalid month"
          /\ (/\ MonthOf(call.src.text) \in 1..12
              /\ DayOf(call.src.text)
                    \notin 1..DaysInMonth(YearOf(call.src.text), MonthOf(call.src.text)))
                => call.err = "invalid day"
          /\ call.set => CivilFromDays(call.t.day)
                            = [Year |-> YearOf(call.src.text),
                               Month |-> MonthOf(call.src.text),
                               Day |-> DayOf(call.src.text)]
    /\ IsScanOf(<<"2", "4", ":", "0", "0">>) => call.err = "invalid hours"
    /\ IsScanOf(<<"1", "2", ":", "6", "0">>) => call.err = "invalid minutes"
    /\ IsScanOf(<<"1", "2", ":", "3", "0", ":", "6", "0">>) => call.err = "invalid seconds"
    /\ IsScanOf(<<"2", "0", "2", "4", "-", "0", "4", "-", "3", "0", " ", "2", "4", ":", "0", "0">>) => call.err = "invalid hours"
    /\ IsScanOf(<<"2", "0", "2", "4", "-", "0", "4", "-", "3", "0", " ", "1", "2", ":", "6", "0">>) => call.err = "invalid minutes"
    /\ IsScanOf(<<"2", "0", "2", "4", "-", "0", "4", "-", "3", "0", " ", "1", "2", ":", "3", "0", ":", "6", "0">>) => call.err = "invalid seconds"
    /\ IsScanOf(<<"2", "0", "2", "4", "-", "0", "1">>) => call.err = "invalid time"
    /\ IsScanOf(<<>>) => call.err = "invalid time"

\* A text of digits only, with at least one.
IsDigitRun(text) == Len(text) > 0 /\ \A i \in 1..Len(text) : IsDigit(text[i])

\* What the model checker finds to hold of scanTime: it panics on a run of
\* digits with nothing behind it and on no other input, it ends otherwise
\* with one of its errors or with the time set, a month outside 1..12 and a
\* day outside 1..31 are rejected with the error of the field, and a day of
\* 1..31 behind the end of its month sets a time in the month after.
ScanTimeOutcomes ==
    /\ call.op = "scanTime" =>
          /\ call.panic <=> (IsScanCall /\ IsDigitRun(call.src.text))
          /\ ~call.panic => (call.set <=> (call.err = ""))
          /\ call.err \in ScanErrors \cup {""}
    /\ (IsScanCall /\ IsDateText(call.src.text) /\ YearOf(call.src.text) # 0) =>
          /\ MonthOf(call.src.text) \notin 1..12 => call.err = "invalid month"
          /\ (MonthOf(call.src.text) \in 1..12 /\ DayOf(call.src.text) \notin 1..31)
                => call.err = "invalid day"
          /\ call.set =>
                \/ CivilFromDays(call.t.day)
                      = [Year |-> YearOf(call.src.text),
                         Month |-> MonthOf(call.src.text),
                         Day |-> DayOf(call.src.text)]
                \/ /\ DayOf(call.src.text)
                        > DaysInMonth(YearOf(call.src.text), MonthOf(call.src.text))
                   /\ CivilFromDays(call.t.day)
                        = [Year |-> YearOf(call.src.text),
                           Month |-> MonthOf(call.src.text) + 1,
                           Day |-> DayOf(call.src.text)
                                   - DaysInMonth(YearOf(call.src.text),
                                                 MonthOf(call.src.text))]

-----------------------------------------------------------------------------
(* Claims about the scoring of skeletons *)

\* The sum of p[j] over the classes from j on.
RECURSIVE SumFrom(_, _)
SumFrom(p, j) == IF j > 12 THEN 0 ELSE p[j] + SumFrom(p, j + 1)

\* The candidates of a table that are not disqualified for a target: each
\* of the 12 classes is present in both or in neither.
QualifiedKeys(formats, pattern) ==
    {k \in DOMAIN formats \ {<<>>} :
        \A j \in Classes :
            (makeSkeletonSymbols(k)[j].N = 0) = (makeSkeletonSymbols(pattern)[j].N = 0)}

\* The penalty of a different width between the symbol x of a candidate and
\* the symbol y of the target.
WidthPenalty(x, y) ==
    IF x.N = y.N THEN 0
    ELSE IF \/ (x.N < 3) # (y.N < 3) /\ x.Symbol \in {"M", "L", "Q", "q", "e", "c"}
            \/ x.Symbol # y.Symbol /\ "E" \in {x.Symbol, y.Symbol}
    THEN 144
    ELSE 12

\* The penalty as the claim states it: in every class 1 for a different
\* symbol, and the penalty of a different width.
StatedPenalty(k, pattern) ==
    SumFrom([j \in Classes |->
                (IF makeSkeletonSymbols(k)[j].Symbol # makeSkeletonSymbols(pattern)[j].Symbol
                 THEN 1 ELSE 0)
                + WidthPenalty(makeSkeletonSymbols(k)[j], makeSkeletonSymbols(pattern)[j])], 1)

\* The penalty with the day period (class 8) and the time zone (class 12) of
\* the candidate read with the symbol of the target.
SubstitutedPenalty(k, pattern) ==
    SumFrom([j \in Classes |->
                IF j \in {8, 12}
                THEN WidthPenalty([Symbol |-> makeSkeletonSymbols(pattern)[j].Symbol,
                                   N |-> makeSkeletonSymbols(k)[j].N],
                                  makeSkeletonSymbols(pattern)[j])
                ELSE (IF makeSkeletonSymbols(k)[j].Symbol
                            # makeSkeletonSymbols(pattern)[j].Symbol
                      THEN 1 ELSE 0)
                     + WidthPenalty(makeSkeletonSymbols(k)[j],
                                    makeSkeletonSymbols(pattern)[j])], 1)

IsMatchCall == skel.op = "matchSkeletonSymbols" /\ <<>> \in DOMAIN skel.formats

C22_SameForEveryOrder ==
    skel.op = "matchSkeletonSymbols" =>
        \A skeletons \in Orders(DOMAIN skel.formats \ {<<>>}) :
            matchSkeletonSymbols(skel.formats, skeletons, skel.pattern) = skel.result

\* The qualified candidates of the lowest penalty.
LowestKeys(formats, pattern) ==
    {k \in QualifiedKeys(formats, pattern) :
        \A other \in QualifiedKeys(formats, pattern) :
            SubstitutedPenalty(k, pattern) <= SubstitutedPenalty(other, pattern)}

\* What the model checker finds to hold of the orders: the result is the
\* same for every order when at most one qualified candidate has the lowest
\* penalty.
SameForEveryOrderWithoutTie ==
    (/\ skel.op = "matchSkeletonSymbols"
     /\ Cardinality(LowestKeys(skel.formats, skel.pattern)) <= 1) =>
        \A skeletons \in Orders(DOMAIN skel.formats \ {<<>>}) :
            matchSkeletonSymbols(skel.formats, skeletons, skel.pattern) = skel.result

-----------------------------------------------------------------------------
(* getIntervalPattern on its own *)

\* The tables of the calls: interval formats of a locale, and entries with
\* other keys (the era G, the flexible day period B).
PatternTables ==
    { Restrict(IntervalFormats, {<<>>, <<"y", "M", "M", "M", "d">>, <<"M", "M", "M", "d">>}),
      Restrict(IntervalFormats, {<<>>, <<"H", "m">>, <<"h", "m">>, <<"h", "m", "v">>}),
      [k \in {<<>>, <<"B", "h", "m">>, <<"G", "y">>} |->
          CASE k = <<>> -> Entry({<<"", <<"{", "0", "}", " ", "-", " ", "{", "1", "}">>>>})
            [] k = <<"B", "h", "m">> -> Entry({<<"B", <<"h", ":", "m", "m", " ", "B", " ", "-", " ", "h", ":", "m", "m", " ", "B">>>>, <<"h", <<"h", ":", "m", "m", " ", "-", " ", "h", ":", "m", "m", " ", "B">>>>,
                                     <<"m", <<"h", ":", "m", "m", " ", "-", " ", "h", ":", "m", "m", " ", "B", " ", "(", "m", ")">>>>})
            [] OTHER -> Entry({<<"G", <<"y", " ", "G", " ", "-", " ", "y", " ", "G">>>>, <<"y", <<"y", " ", "-", " ", "y", " ", "G">>>>})],
      [k \in {<<>>, <<"y", "M", "d">>, <<"H", "m", "s">>} |->
          CASE k = <<>> -> Entry({<<"", <<"{", "0", "}", " ", "-", " ", "{", "1", "}">>>>})
            [] k = <<"y", "M", "d">> -> Entry({<<"d", <<"d", " ", "-", " ", "d", "/", "M", "/", "y">>>>, <<"G", <<"d", "/", "M", "/", "y", " ", "G", " ", "-", " ", "d", "/", "M", "/", "y", " ", "G">>>>})
            [] OTHER -> Entry({<<"s", <<"H", ":", "m", "m", ":", "s", "s", " ", "-", " ", "s", "s">>>>, <<"m", <<"H", ":", "m", "m", ":", "s", "s", " ", "-", " ", "m", "m", ":", "s", "s">>>>,
                               <<"H", <<"H", ":", "m", "m", ":", "s", "s", " ", "-", " ", "H", ":", "m", "m", ":", "s", "s">>>>})] }

PatternTargets ==
    { <<"M", "M", "M", " ", "d", ",", " ", "y">>, <<"M", "M", "M", " ", "d">>, <<"H", "H", ":", "m", "m">>, <<"h", ":", "m", "m", " ", "a">>, <<"h", ":", "m", "m", " ", "a", " ", "z">>, <<"h", ":", "m", "m", " ", "B">>, <<"y", " ", "G">>,
      <<"d", "/", "M", "/", "y">>, <<"H", "H", ":", "m", "m", ":", "s", "s">>, <<"E", "E", "E", "E">> }

Differences == {"y", "M", "d", "a", "h", "H", "m", "s"}

\* intervalPattern, ok := getIntervalPattern(locale, pattern, greatestDifference):
\* skeletons and diffs are the orders of its two map iterations, m what
\* matchSkeletonSymbols returned.
GetIntervalPatternOp ==
    /\ call.op = "idle"
    /\ \E formats \in PatternTables, pattern \in PatternTargets,
          greatestDifference \in Differences :
        \E skeletons \in Orders(DOMAIN formats \ {<<>>}) :
            \E m \in {matchSkeletonSymbols(formats, skeletons, pattern)} :
                \E diffs \in Orders(KeysOf(m.val)) :
                    call' = [op |-> "getIntervalPattern", formats |-> formats,
                             pattern |-> pattern,
                             greatestDifference |-> greatestDifference,
                             skeletons |-> skeletons, diffs |-> diffs, m |-> m,
                             result |-> getIntervalPattern(
                                            [DatetimeIntervalFormat |-> formats],
                                            skeletons, diffs, pattern, greatestDifference)]
    /\ UNCHANGED <<a, op, arg, res, err, ret, loc, skel, ivl>>

IntervalPatternNext == GetIntervalPatternOp

IntervalPatternSpec == AmountInit /\ [][IntervalPatternNext]_vars

\* A call that matched an entry which has keys but not the requested one.
IsSubstituteCall ==
    /\ call.op = "getIntervalPattern"
    /\ ~call.m.subs.nil
    /\ KeysOf(call.m.val) # {}
    /\ ~HasKey(call.m.val, call.greatestDifference)

\* The smallest key of an entry in the order of the bytes.
SmallestKey(entry) ==
    CHOOSE k \in KeysOf(entry) :
        \A other \in KeysOf(entry) : IndexOf(KeyBytes, k) <= IndexOf(KeyBytes, other)

\* The key the claim names: "y", else "M", else the smallest.
SubstituteKey(entry) ==
    IF HasKey(entry, "y") THEN "y"
    ELSE IF HasKey(entry, "M") THEN "M"
    ELSE SmallestKey(entry)

\* C23: when the matched interval entry has no pattern for the requested
\* greatest difference, getIntervalPattern uses the key "y" if the entry has
\* it, else "M" if the entry has it, else the smallest remaining key in byte
\* order, and this is the same for every iteration order of the entry's
\* map: the pattern returned is that of this key with the substitutions of
\* the match applied, for every order.
C23_SubstituteKey ==
    IsSubstituteCall =>
        /\ call.result.ok
        /\ call.result.pattern
             = ApplySubs(ValueAt(call.m.val, SubstituteKey(call.m.val)), call.m.subs.pairs)
        /\ \A diffs \in Orders(KeysOf(call.m.val)) :
              IntervalPatternOf(call.m, diffs, call.greatestDifference) = call.result

\* A substitute looked for in an entry with "y" that the iteration delivers
\* first, followed by "M"; and one in an entry with neither.
C23_Witness ==
    /\ IsSubstituteCall
    /\ Len(call.diffs) >= 3
    /\ call.diffs[1] = "y" /\ call.diffs[2] = "M"
    /\ ValueAt(call.m.val, "y") # ValueAt(call.m.val, "M")

-----------------------------------------------------------------------------
(***************************************************************************)
(* The loops of formatTime and formatInterval, one iteration at a time.    *)
(* A pattern is given as the sequence of its segments: a supported run of  *)
(* a field symbol, a run without a case, literal bytes, a quoted literal   *)
(* and a quote that is not closed.                                         *)
(***************************************************************************)

SegmentText(s) ==
    CASE s.kind = "quoted" -> <<"'">> \o s.text \o <<"'">>
      [] s.kind = "open" -> <<"'">> \o s.text
      [] OTHER -> s.text

RECURSIVE PatternOf(_)
PatternOf(segs) ==
    IF segs = <<>> THEN <<>> ELSE SegmentText(Head(segs)) \o PatternOf(Tail(segs))

\* Patterns whose runs all have a case, and patterns with other runs and
\* with quotes that are not closed.
FieldSegments ==
    { <<[kind |-> "field", text |-> <<"h">>], [kind |-> "lit", text |-> <<" ">>], [kind |-> "field", text |-> <<"a">>], [kind |-> "lit", text |-> <<" ", "0xE2", "0x80", "0x93", " ">>], [kind |-> "field", text |-> <<"H">>], [kind |-> "lit", text |-> <<":">>], [kind |-> "field", text |-> <<"m", "m">>]>>,
      <<[kind |-> "field", text |-> <<"d">>], [kind |-> "lit", text |-> <<" ">>], [kind |-> "field", text |-> <<"M", "M", "M">>], [kind |-> "lit", text |-> <<" ", "0xE2", "0x80", "0x93", " ">>], [kind |-> "field", text |-> <<"d">>], [kind |-> "lit", text |-> <<" ">>], [kind |-> "field", text |-> <<"M", "M", "M">>], [kind |-> "lit", text |-> <<" ">>], [kind |-> "field", text |-> <<"y">>]>>,
      <<[kind |-> "field", text |-> <<"h">>], [kind |-> "lit", text |-> <<":">>], [kind |-> "field", text |-> <<"m", "m">>], [kind |-> "lit", text |-> <<" ", "0xE2", "0x80", "0x93", " ">>], [kind |-> "field", text |-> <<"h">>], [kind |-> "lit", text |-> <<":">>], [kind |-> "field", text |-> <<"m", "m">>], [kind |-> "lit", text |-> <<" ">>], [kind |-> "field", text |-> <<"a">>]>>,
      <<[kind |-> "field", text |-> <<"d">>], [kind |-> "lit", text |-> <<"/">>], [kind |-> "field", text |-> <<"M">>], [kind |-> "lit", text |-> <<"/">>], [kind |-> "field", text |-> <<"y">>], [kind |-> "lit", text |-> <<" ", "-", " ">>], [kind |-> "field", text |-> <<"d">>], [kind |-> "lit", text |-> <<"/">>], [kind |-> "field", text |-> <<"M">>], [kind |-> "lit", text |-> <<"/">>], [kind |-> "field", text |-> <<"y">>]>>,
      <<[kind |-> "field", text |-> <<"E", "E", "E", "E">>], [kind |-> "lit", text |-> <<",", " ">>], [kind |-> "field", text |-> <<"d">>], [kind |-> "lit", text |-> <<" ">>], [kind |-> "quoted", text |-> <<"d", "e">>], [kind |-> "lit", text |-> <<" ">>], [kind |-> "field", text |-> <<"M", "M", "M", "M">>], [kind |-> "lit", text |-> <<" ", "-", " ">>], [kind |-> "field", text |-> <<"d">>]>>,
      <<[kind |-> "field", text |-> <<"M", "M", "M">>], [kind |-> "lit", text |-> <<" ">>], [kind |-> "field", text |-> <<"d">>], [kind |-> "lit", text |-> <<" ">>], [kind |-> "quoted", text |-> <<"a", "t">>], [kind |-> "lit", text |-> <<" ">>], [kind |-> "field", text |-> <<"h">>], [kind |-> "lit", text |-> <<":">>], [kind |-> "field", text |-> <<"m", "m">>], [kind |-> "lit", text |-> <<" ">>], [kind |-> "field", text |-> <<"a">>]>>,
      <<[kind |-> "field", text |-> <<"y">>], [kind |-> "lit", text |-> <<"-">>], [kind |-> "field", text |-> <<"M", "M">>], [kind |-> "lit", text |-> <<"-">>], [kind |-> "field", text |-> <<"d", "d">>], [kind |-> "quoted", text |-> <<"T">>], [kind |-> "field", text |-> <<"H", "H">>], [kind |-> "lit", text |-> <<":">>], [kind |-> "field", text |-> <<"m", "m">>], [kind |-> "lit", text |-> <<":">>], [kind |-> "field", text |-> <<"s", "s">>]>>,
      <<[kind |-> "field", text |-> <<"H", "H">>], [kind |-> "lit", text |-> <<":">>], [kind |-> "field", text |-> <<"m", "m">>], [kind |-> "quoted", text |-> <<"h">>], [kind |-> "lit", text |-> <<"-">>], [kind |-> "field", text |-> <<"H", "H">>], [kind |-> "lit", text |-> <<":">>], [kind |-> "field", text |-> <<"m", "m">>], [kind |-> "quoted", text |-> <<"h">>]>>,
      <<[kind |-> "field", text |-> <<"M">>], [kind |-> "lit", text |-> <<" ", "-", " ">>], [kind |-> "field", text |-> <<"M">>], [kind |-> "lit", text |-> <<" ">>], [kind |-> "field", text |-> <<"d">>], [kind |-> "lit", text |-> <<" ">>], [kind |-> "field", text |-> <<"d">>]>> }

OtherSegments ==
    { <<[kind |-> "field", text |-> <<"H">>], [kind |-> "lit", text |-> <<":">>], [kind |-> "field", text |-> <<"m", "m">>], [kind |-> "lit", text |-> <<" ">>], [kind |-> "open", text |-> <<"u", "u", "r">>]>>,
      <<[kind |-> "open", text |-> <<>>]>>,
      <<[kind |-> "quoted", text |-> <<>>], [kind |-> "field", text |-> <<"y">>]>>,
      <<[kind |-> "quoted", text |-> <<"d">>], [kind |-> "quoted", text |-> <<"y">>], [kind |-> "field", text |-> <<"d">>]>>,
      <<[kind |-> "unsupported", text |-> <<"y", "y", "y">>], [kind |-> "lit", text |-> <<" ">>], [kind |-> "field", text |-> <<"d">>], [kind |-> "lit", text |-> <<" ">>], [kind |-> "unsupported", text |-> <<"Q", "Q">>]>>,
      <<[kind |-> "field", text |-> <<"d">>], [kind |-> "open", text |-> <<"M", "M", "M", " ", "y">>]>> }

ScanFromTimes == {Time(2024, 1, 1, 9, 5, 7), Time(2024, 12, 31, 12, 0, 0)}

ScanToTimes == {Time(2025, 2, 3, 14, 35, 8), Time(2024, 12, 31, 12, 30, 0)}

MinInt2(x, y) == IF x <= y THEN x ELSE y

\* The n of utf8.DecodeRuneInString(pattern[i:]): the patterns hold ASCII
\* and the three bytes of U+2013.
RuneWidth(pattern, i) ==
    IF pattern[i] = "0xE2" /\ i + 2 <= Len(pattern) THEN 3 ELSE 1

\* b = utf8.AppendRune(b, r); i += n
RuneStep(st) ==
    [st EXCEPT !.b = @ \o Lits(SubSeq(st.pattern, st.i, st.i + RuneWidth(st.pattern, st.i) - 1)),
               !.i = @ + RuneWidth(st.pattern, st.i),
               !.prev = st.i,
               !.read = st.i + RuneWidth(st.pattern, st.i) - 1,
               !.steps = @ + 1]

\* The state of a loop when it is entered: i is the position (from 1), prev
\* the position before the last iteration, read the highest position of
\* the pattern that the last iteration read.
ScanStart(name, segs, From, To) ==
    [op |-> name, segs |-> segs, pattern |-> PatternOf(segs), From |-> From, To |-> To,
     i |-> 1, prev |-> 0, read |-> 0, steps |-> 0, b |-> <<>>, handled |-> {},
     switched |-> FALSE]

QuoteStepOntoClosingQuote(st) ==
    [st EXCEPT !.b = @ \o Lits(SubSeq(st.pattern, st.i + 1,
                                      ClosingQuote(st.pattern, st.i) - 1)),
               !.i = ClosingQuote(st.pattern, st.i),
               !.prev = st.i,
               !.read = MinInt2(ClosingQuote(st.pattern, st.i), Len(st.pattern)),
               !.steps = @ + 1]

\* case '\'': the bytes up to the closing quote, or to the end.
QuoteStep(st) ==
    [st EXCEPT !.b = @ \o Lits(SubSeq(st.pattern, st.i + 1,
                                      ClosingQuote(st.pattern, st.i) - 1)),
               !.i = ClosingQuote(st.pattern, st.i) + 1,
               !.prev = st.i,
               !.read = MinInt2(ClosingQuote(st.pattern, st.i), Len(st.pattern)),
               !.steps = @ + 1]

\* The three branches behind formatDatetimeItem: a run without a case is
\* skipped, a run with a case is appended, any other byte is copied.
ItemStep(st, t) ==
    IF formatDatetimeItem(st.pattern, st.i, t).n # 0
    THEN [st EXCEPT !.b = @ \o formatDatetimeItem(st.pattern, st.i, t).b,
                    !.i = @ + formatDatetimeItem(st.pattern, st.i, t).n,
                    !.prev = st.i,
                    !.read = MinInt2(st.i + formatDatetimeItem(st.pattern, st.i, t).n,
                                     Len(st.pattern)),
                    !.steps = @ + 1]
    ELSE RuneStep(st)

\* One iteration of the loop of formatTime.
formatTimeStep(st) ==
    IF st.pattern[st.i] = "'" THEN QuoteStep(st) ELSE ItemStep(st, st.From)

formatIntervalStepPerSymbol(st) ==
    IF st.pattern[st.i] = "'" THEN QuoteStep(st)
    ELSE IF st.pattern[st.i] \notin IntervalSymbols THEN RuneStep(st)
    ELSE ItemStep([st EXCEPT !.handled = @ \cup {st.pattern[st.i]}],
                  IF st.pattern[st.i] \in st.handled THEN st.To ELSE st.From)

\* One iteration of the loop of formatInterval.
formatIntervalStep(st) ==
    IF st.pattern[st.i] = "'" THEN QuoteStep(st)
    ELSE IF st.pattern[st.i] \notin IntervalSymbols
    THEN RuneStep(st)
    ELSE ItemStep([st EXCEPT !.handled = @ \cup {st.pattern[st.i]},
                             !.switched = @ \/ st.pattern[st.i] \in st.handled],
                  IF st.switched \/ st.pattern[st.i] \in st.handled THEN st.To
                  ELSE st.From)

\* b := formatTime([]byte{}, pattern, locale, t)
FormatTimeCall ==
    /\ call.op = "idle"
    /\ \E segs \in FieldSegments \cup OtherSegments, t \in ScanFromTimes :
        call' = ScanStart("formatTime", segs, t, t)
    /\ UNCHANGED <<a, op, arg, res, err, ret, loc, skel, ivl>>

\* b := formatInterval([]byte{}, pattern, locale, from, to)
FormatIntervalCall ==
    /\ call.op = "idle"
    /\ \E segs \in FieldSegments \cup OtherSegments, From \in ScanFromTimes,
          To \in ScanToTimes :
        call' = ScanStart("formatInterval", segs, From, To)
    /\ UNCHANGED <<a, op, arg, res, err, ret, loc, skel, ivl>>

\* for i := 0; i < len(pattern); { ... } of formatTime
FormatTimeStep ==
    /\ call.op = "formatTime"
    /\ call.i <= Len(call.pattern)
    /\ call' = formatTimeStep(call)
    /\ UNCHANGED <<a, op, arg, res, err, ret, loc, skel, ivl>>

\* for i := 0; i < len(pattern); { ... } of formatInterval
FormatIntervalStep ==
    /\ call.op = "formatInterval"
    /\ call.i <= Len(call.pattern)
    /\ call' = formatIntervalStep(call)
    /\ UNCHANGED <<a, op, arg, res, err, ret, loc, skel, ivl>>

PatternScanNext ==
    \/ FormatTimeCall
    \/ FormatIntervalCall
    \/ FormatTimeStep
    \/ FormatIntervalStep

PatternScanSpec == AmountInit /\ [][PatternScanNext]_vars

-----------------------------------------------------------------------------
(***************************************************************************)
(* Claims about the instant a field of an interval is rendered from.       *)
(***************************************************************************)

FieldSegs(segs) == SelectSeq(segs, LAMBDA s : s.kind = "field")

FieldElems(b) == SelectSeq(b, LAMBDA e : e.N > 0)

ClassOf(symbol) == CHOOSE j \in Classes : \E k \in 1..Len(symbolLists[j]) : symbolLists[j][k] = symbol

\* formatInterval has returned for a pattern whose runs all have a case.
IsIntervalDone ==
    /\ call.op = "formatInterval"
    /\ call.i > Len(call.pattern)
    /\ call.segs \in FieldSegments

\* The k-th field of the pattern is of a class that an earlier field had.
ClassRepeats(fs, k) ==
    \E j \in 1..(k - 1) : ClassOf(fs[j].text[1]) = ClassOf(fs[k].text[1])

\* A symbol has come twice among the first k fields of the pattern.
SymbolRepeated(fs, k) ==
    \E j \in 1..k : \E h \in 1..(j - 1) : fs[h].text[1] = fs[j].text[1]

\* C24, as stated: every field of the result is rendered from From when its
\* class comes for the first time in the pattern, and from To when the class
\* came before; a class that comes first after another class has repeated
\* is rendered from From.
C24_FirstFromRepeatTo ==
    IsIntervalDone =>
        \E fs \in {FieldSegs(call.segs)} : \E es \in {FieldElems(call.b)} :
            /\ Len(es) = Len(fs)
            /\ \A k \in 1..Len(fs) :
                es[k].Value = FieldValue(fs[k].text[1],
                                         IF ClassRepeats(fs, k) THEN call.To
                                         ELSE call.From)

\* C24, amended: every field before the first field whose symbol came
\* before is rendered from From; that field and every field after it are
\* rendered from To.
C24_FromUntilFirstRepeat ==
    IsIntervalDone =>
        \E fs \in {FieldSegs(call.segs)} : \E es \in {FieldElems(call.b)} :
            /\ Len(es) = Len(fs)
            /\ \A k \in 1..Len(fs) :
                es[k] = [Symbol |-> fs[k].text[1], N |-> Len(fs[k].text),
                         Value |-> FieldValue(fs[k].text[1],
                                              IF SymbolRepeated(fs, k) THEN call.To
                                              ELSE call.From)]

\* "d MMM - d MMM y" over a change of year has been rendered, and its year
\* is that of To.
C24_Witness ==
    /\ IsIntervalDone
    /\ call.segs = <<[kind |-> "field", text |-> <<"d">>], [kind |-> "lit", text |-> <<" ">>], [kind |-> "field", text |-> <<"M", "M", "M">>], [kind |-> "lit", text |-> <<" ", "0xE2", "0x80", "0x93", " ">>], [kind |-> "field", text |-> <<"d">>], [kind |-> "lit", text |-> <<" ">>], [kind |-> "field", text |-> <<"M", "M", "M">>], [kind |-> "lit", text |-> <<" ">>], [kind |-> "field", text |-> <<"y">>]>>
    /\ call.From.Year # call.To.Year
    /\ FieldElems(call.b)[5].Value = call.To.Year

-----------------------------------------------------------------------------
(***************************************************************************)
(* Claims about quoted literals and the progress of the two loops.         *)
(***************************************************************************)

\* What a segment stands for when t is rendered: the text of a literal,
\* quoted or not, the field of a run, nothing for a run without a case.
SegmentOutput(s, t) ==
    CASE s.kind = "field" -> <<[Symbol |-> s.text[1], N |-> Len(s.text),
                                Value |-> FieldValue(s.text[1], t)]>>
      [] s.kind = "unsupported" -> <<>>
      [] OTHER -> Lits(s.text)

RECURSIVE SegmentsOutput(_, _)
SegmentsOutput(segs, t) ==
    IF segs = <<>> THEN <<>>
    ELSE SegmentOutput(Head(segs), t) \o SegmentsOutput(Tail(segs), t)

\* The elements with the instant they were rendered from left out.
EraseValues(b) == [k \in DOMAIN b |-> [b[k] EXCEPT !.Value = 0]]

IsScanning == call.op \in {"formatTime", "formatInterval"}

IsScanDone == IsScanning /\ call.i > Len(call.pattern)

\* C25: every iteration of the loops of formatTime and formatInterval moves
\* forward by at least one byte and reads no byte outside the pattern, so
\* there are at most len(pattern) iterations; the result holds the content
\* of every quoted run without its quotes and with none of its letters
\* taken as a field, the fields after a closing quote are rendered, and
\* what follows a quote that is not closed is literal text.
C25_QuotedLiteralsAndProgress ==
    IsScanning =>
        /\ call.i > call.prev
        /\ call.read <= Len(call.pattern)
        /\ call.i <= Len(call.pattern) + 2
        /\ call.steps <= Len(call.pattern)
        /\ IsScanDone =>
            /\ EraseValues(call.b) = EraseValues(SegmentsOutput(call.segs, call.From))
            /\ call.op = "formatTime" => call.b = SegmentsOutput(call.segs, call.From)

\* A pattern with field letters behind a quote that is not closed has been
\* rendered.
C25_Witness ==
    /\ IsScanDone
    /\ \E k \in 1..Len(call.segs) :
        /\ call.segs[k].kind = "open"
        /\ \E j \in 1..Len(call.segs[k].text) : call.segs[k].text[j] \in ItemSymbols
    /\ \A k \in 1..Len(call.b) : call.b[k].Symbol # "'"

-----------------------------------------------------------------------------
(***************************************************************************)
(* makeSkeletonSymbols on patterns with quoted literals.  A pattern is the *)
(* date part, the join and the time part of a locale's formats.            *)
(***************************************************************************)

DateSegments ==
    { <<[kind |-> "field", text |-> <<"M", "M", "M", "M">>], [kind |-> "lit", text |-> <<" ">>], [kind |-> "field", text |-> <<"d">>], [kind |-> "lit", text |-> <<",", " ">>], [kind |-> "field", text |-> <<"y">>]>>,
      <<[kind |-> "field", text |-> <<"E", "E", "E", "E">>], [kind |-> "lit", text |-> <<",", " ">>], [kind |-> "field", text |-> <<"d">>], [kind |-> "lit", text |-> <<" ">>], [kind |-> "quoted", text |-> <<"d", "e">>], [kind |-> "lit", text |-> <<" ">>], [kind |-> "field", text |-> <<"M", "M", "M", "M">>]>>,
      <<[kind |-> "field", text |-> <<"d">>], [kind |-> "lit", text |-> <<"/">>], [kind |-> "field", text |-> <<"M">>], [kind |-> "lit", text |-> <<"/">>], [kind |-> "field", text |-> <<"y", "y">>]>>,
      <<[kind |-> "field", text |-> <<"y">>], [kind |-> "lit", text |-> <<"-">>], [kind |-> "field", text |-> <<"M", "M">>], [kind |-> "lit", text |-> <<"-">>], [kind |-> "field", text |-> <<"d", "d">>]>>,
      <<[kind |-> "field", text |-> <<"M", "M", "M">>], [kind |-> "lit", text |-> <<" ">>], [kind |-> "field", text |-> <<"d">>]>>,
      <<>> }

JoinSegments ==
    { <<[kind |-> "lit", text |-> <<" ">>]>>,
      <<[kind |-> "lit", text |-> <<",", " ">>]>>,
      <<[kind |-> "lit", text |-> <<" ">>], [kind |-> "quoted", text |-> <<"a", "t">>], [kind |-> "lit", text |-> <<" ">>]>>,
      <<[kind |-> "lit", text |-> <<" ">>], [kind |-> "quoted", text |-> <<"a", " ", "l", "a", "s">>], [kind |-> "lit", text |-> <<" ">>]>>,
      <<[kind |-> "lit", text |-> <<" ">>], [kind |-> "quoted", text |-> <<"u", "m">>], [kind |-> "lit", text |-> <<" ">>]>>,
      <<[kind |-> "quoted", text |-> <<"T">>]>>,
      <<[kind |-> "lit", text |-> <<" ">>], [kind |-> "quoted", text |-> <<"k", "l", ".">>], [kind |-> "lit", text |-> <<" ">>]>> }

TimeSegments ==
    { <<[kind |-> "field", text |-> <<"h">>], [kind |-> "lit", text |-> <<":">>], [kind |-> "field", text |-> <<"m", "m">>], [kind |-> "lit", text |-> <<" ">>], [kind |-> "field", text |-> <<"a">>]>>,
      <<[kind |-> "field", text |-> <<"H", "H">>], [kind |-> "lit", text |-> <<":">>], [kind |-> "field", text |-> <<"m", "m">>], [kind |-> "lit", text |-> <<":">>], [kind |-> "field", text |-> <<"s", "s">>]>>,
      <<[kind |-> "field", text |-> <<"H", "H">>], [kind |-> "lit", text |-> <<" ">>], [kind |-> "quoted", text |-> <<"h">>], [kind |-> "lit", text |-> <<" ">>], [kind |-> "field", text |-> <<"m", "m">>]>>,
      <<[kind |-> "field", text |-> <<"H">>], [kind |-> "lit", text |-> <<":">>], [kind |-> "field", text |-> <<"m", "m">>], [kind |-> "lit", text |-> <<" ">>], [kind |-> "quoted", text |-> <<"U", "h", "r">>]>>,
      <<[kind |-> "field", text |-> <<"H", "H">>], [kind |-> "lit", text |-> <<":">>], [kind |-> "field", text |-> <<"m", "m">>], [kind |-> "lit", text |-> <<" ">>], [kind |-> "quoted", text |-> <<"U", "h", "r">>], [kind |-> "lit", text |-> <<" ">>], [kind |-> "field", text |-> <<"z", "z", "z", "z">>]>>,
      <<>> }

\* v := makeSkeletonSymbols(pattern)
MakeSkeletonSymbolsOp ==
    /\ call.op = "idle"
    /\ \E d \in DateSegments, j \in JoinSegments, t \in TimeSegments :
        call' = [op |-> "makeSkeletonSymbols", segs |-> d \o j \o t,
                 pattern |-> PatternOf(d \o j \o t),
                 v |-> makeSkeletonSymbols(PatternOf(d \o j \o t))]
    /\ UNCHANGED <<a, op, arg, res, err, ret, loc, skel, ivl>>

SkeletonSymbolsNext == MakeSkeletonSymbolsOp

SkeletonSymbolsSpec == AmountInit /\ [][SkeletonSymbolsNext]_vars

\* The pattern with nothing between its quotes.
EmptyQuotes(segs) ==
    [k \in DOMAIN segs |-> IF segs[k].kind \in {"quoted", "open"}
                           THEN [segs[k] EXCEPT !.text = <<>>] ELSE segs[k]]

\* The entry that the runs of the fields give to class j: the symbol of the
\* class that comes first in its list, with the length of its first run.
FieldEntry(segs, j) ==
    LET fs == FieldSegs(segs)
        found == {k \in 1..Len(symbolLists[j]) :
                     \E h \in 1..Len(fs) : fs[h].text[1] = symbolLists[j][k]}
        first == symbolLists[j][MinOf(found)]
    IN  IF found = {} THEN skeletonSymbol("", 0)
        ELSE skeletonSymbol(first,
                 Len(fs[MinOf({h \in 1..Len(fs) : fs[h].text[1] = first})].text))

IsSkeletonCall == call.op = "makeSkeletonSymbols"

\* C26: the skeleton of a pattern is that of its field runs outside quoted
\* text: it is the skeleton of the pattern with the content of its quoted
\* literals taken out, so two patterns that differ in quoted text only
\* have the same skeleton.
C26_SkeletonIgnoresLiterals ==
    IsSkeletonCall =>
        /\ call.v = makeSkeletonSymbols(PatternOf(EmptyQuotes(call.segs)))
        /\ \A j \in Classes : call.v[j] = FieldEntry(call.segs, j)

\* Where no letter of a quoted literal is a symbol that comes earlier in a
\* class list, or earlier in the pattern, than the fields of the class, the
\* skeleton is that of the field runs.
QuotedLetters(segs) ==
    UNION {{segs[k].text[h] : h \in 1..Len(segs[k].text)} :
              k \in {x \in 1..Len(segs) : segs[x].kind \in {"quoted", "open"}}}

SkeletonOfFieldsWithoutQuotedSymbols ==
    (IsSkeletonCall /\ \A j \in Classes : \A k \in 1..Len(symbolLists[j]) :
                          symbolLists[j][k] \notin QuotedLetters(call.segs)) =>
        \A j \in Classes : call.v[j] = FieldEntry(call.segs, j)

-----------------------------------------------------------------------------
(***************************************************************************)
(* The day period field "b".  locale.DayPeriodRules is a map from the name *)
(* of a period to its rule, in minutes of the day; To = -1 marks a rule    *)
(* for one minute.  The order in which range delivers the map is an input. *)
(***************************************************************************)

DayPeriodRule(From, To) == [From |-> From, To |-> To]

Rules(names, rule) == [name \in names |-> rule[name]]

AllRules ==
    [midnight |-> DayPeriodRule(0, -1), noon |-> DayPeriodRule(720, -1),
     morning1 |-> DayPeriodRule(360, 720), afternoon1 |-> DayPeriodRule(720, 1080),
     evening1 |-> DayPeriodRule(1080, 1260), am |-> DayPeriodRule(0, 720),
     pm |-> DayPeriodRule(720, 1440)]

DayPeriodRuleTables ==
    { Rules({"midnight", "noon", "morning1", "afternoon1"}, AllRules),
      Rules({"noon", "morning1", "evening1"}, AllRules),
      Rules({"midnight", "morning1", "evening1"}, AllRules),
      Rules({"noon", "am", "pm"}, AllRules) }

\* The names that locale.DayPeriodSymbol has an entry for.
DayPeriodSymbols ==
    { {"am", "pm", "midnight", "noon", "morning1", "afternoon1", "evening1"},
      {"am", "pm", "midnight", "morning1", "afternoon1"} }

DayPeriodTimes ==
    { Time(2024, 5, 6, 0, 0, 0), Time(2024, 5, 6, 0, 1, 0), Time(2024, 5, 6, 6, 0, 0),
      Time(2024, 5, 6, 11, 59, 0), Time(2024, 5, 6, 12, 0, 0), Time(2024, 5, 6, 12, 1, 0),
      Time(2024, 5, 6, 18, 0, 0), Time(2024, 5, 6, 23, 59, 0) }

MinuteOfDay(t) == (t.Hour * 60) + t.Minute

RuleMatches(rule, d) ==
    IF rule.To = -1 THEN rule.From = d ELSE rule.From <= d /\ d < rule.To

\* The name of the first rule, in the order of the iteration, that holds
\* the minute of t; "" when there is none.
getDayPeriod(rules, order, t) ==
    IF \E k \in 1..Len(order) : RuleMatches(rules[order[k]], MinuteOfDay(t))
    THEN order[MinOf({k \in 1..Len(order) :
                         RuleMatches(rules[order[k]], MinuteOfDay(t))})]
    ELSE ""

\* The width of the symbol that a run of n letters takes.
SymbolWidth(n) ==
    CASE n \in 1..3 -> "Abbreviated" [] n = 4 -> "Wide" [] OTHER -> "Narrow"

\* t.Format("PM") == "PM"
IsPM(t) == t.Hour >= 12

\* case "b", "bb", "bbb", "bbbb", "bbbbb" of formatDatetimeItem: the name of
\* the symbol that is appended and its width.
formatDayPeriodItem(symbols, rules, order, n, t) ==
    [name |-> IF /\ getDayPeriod(rules, order, t) \in symbols
                 /\ getDayPeriod(rules, order, t) \in {"midnight", "noon"}
              THEN getDayPeriod(rules, order, t)
              ELSE IF IsPM(t) THEN "pm" ELSE "am",
     width |-> SymbolWidth(n)]

\* formatDatetimeItem(b, "b...", locale, t)
FormatDayPeriodOp ==
    /\ call.op = "idle"
    /\ \E rules \in DayPeriodRuleTables, symbols \in DayPeriodSymbols,
          n \in {1, 4, 5}, t \in DayPeriodTimes :
        \E order \in Orders(DOMAIN rules) :
            call' = [op |-> "formatDayPeriod", rules |-> rules, symbols |-> symbols,
                     order |-> order, n |-> n, t |-> t,
                     result |-> formatDayPeriodItem(symbols, rules, order, n, t)]
    /\ UNCHANGED <<a, op, arg, res, err, ret, loc, skel, ivl>>

DayPeriodNext == FormatDayPeriodOp

DayPeriodSpec == AmountInit /\ [][DayPeriodNext]_vars

IsDayPeriodCall == call.op = "formatDayPeriod"

\* The names "noon" and "midnight" with a rule for exactly the minute d and
\* with a symbol.
BoundaryNames(rules, symbols, d) ==
    {name \in {"noon", "midnight"} \cap DOMAIN rules \cap symbols :
        rules[name].To = -1 /\ rules[name].From = d}

\* C27: at a minute for which the locale has a rule named "noon" or
\* "midnight" for that minute alone, and a symbol for it, "b" renders that
\* symbol, and at every other minute it renders am or pm; range rules that
\* hold the minute too and the order of the iteration over the rules make
\* no difference.
C27_BoundaryOrAmPm ==
    IsDayPeriodCall =>
        \E names \in {BoundaryNames(call.rules, call.symbols, MinuteOfDay(call.t))} :
            IF names # {} THEN call.result.name \in names
            ELSE call.result.name = (IF IsPM(call.t) THEN "pm" ELSE "am")

\* No range rule of the table holds the minute d.
NoRangeRuleAt(rules, d) ==
    \A name \in DOMAIN rules : rules[name].To # -1 => ~RuleMatches(rules[name], d)

\* Where no range rule holds the minute, "b" renders as C27 says.
BoundaryOrAmPmWithoutRange ==
    (IsDayPeriodCall /\ NoRangeRuleAt(call.rules, MinuteOfDay(call.t))) =>
        \E names \in {BoundaryNames(call.rules, call.symbols, MinuteOfDay(call.t))} :
            IF names # {} THEN call.result.name \in names
            ELSE call.result.name = (IF IsPM(call.t) THEN "pm" ELSE "am")

-----------------------------------------------------------------------------
(***************************************************************************)
(* Claims about the magnitude of the stored integer of an Amount.          *)
(***************************************************************************)

InMagnitude(n) == -MaxAmount <= n /\ n <= MaxAmount

MagnitudeCalls == {"NewAmount", "NewZeroAmount", "Add", "Sub", "Mul", "Div", "Round", "Neg", "Abs"}

\* C28: every Amount that NewAmount, NewZeroAmount, Add, Sub, Mul, Div,
\* Round, Neg or Abs returns without an error has its stored integer in
\* [-MaxAmount, MaxAmount]; Neg does not overflow, the Neg of its result is
\* the receiver again, and the result of Abs is not negative.
C28_MagnitudeInvariant ==
    (op \in MagnitudeCalls /\ err = "") =>
        /\ InMagnitude(res.amount)
        /\ op = "Neg" => (res.amount = -a.amount /\ Neg(res) = a)
        /\ op = "Abs" => res.amount >= 0

\* Add, Sub, Mul, Neg and Abs keep the magnitude: with a receiver in
\* [-MaxAmount, MaxAmount] the result that comes without an error is in it.
MagnitudeKept ==
    (op \in {"Add", "Sub", "Mul", "Neg", "Abs"} /\ err = "" /\ InMagnitude(a.amount)) =>
        /\ InMagnitude(res.amount)
        /\ op = "Neg" => (res.amount = -a.amount /\ Neg(res) = a)
        /\ op = "Abs" => res.amount >= 0

-----------------------------------------------------------------------------
(***************************************************************************)
(* Claims about the counts of DurationFormatter.                           *)
(***************************************************************************)

\* The n of every pass of the loop of DurationFormatter.Format from unit i
\* on, without the "≈": n := num / unitSize[i], and num %= unitSize[i] when
\* n is not 0; 0 for a unit that the locale does not have.
RECURSIVE LoopCounts(_, _, _)
LoopCounts(locale, num, i) ==
    IF i > Len(unitType) THEN <<>>
    ELSE IF IsZero(num) \/ ~HasUnit(locale, unitType[i]) \/ QuotBy(num, unitSize[i]) = 0
         THEN <<0>> \o LoopCounts(locale, num, i + 1)
    ELSE <<QuotBy(num, unitSize[i])>>
         \o LoopCounts(locale, RemBy(num, unitSize[i]), i + 1)

\* The phrases of the counts that are not 0, from unit i on, appended to b.
RECURSIVE CountsText(_, _, _, _, _)
CountsText(locale, name, counts, i, b) ==
    IF i > Len(counts) THEN b
    ELSE IF counts[i] = 0 THEN CountsText(locale, name, counts, i + 1, b)
    ELSE CountsText(locale, name, counts, i + 1,
                    AppendPhrase(b, Phrase(CountOf(locale, unitType[i], name), counts[i])))

\* The whole seconds and the nanoseconds that the counts stand for.
CountsSeconds(counts) ==
    (counts[1] * unitSize[1].s) + (counts[2] * unitSize[2].s) + (counts[3] * unitSize[3].s)
    + (counts[4] * unitSize[4].s) + (counts[5] * unitSize[5].s)

CountsNanos(counts) ==
    (counts[6] * unitSize[6].ns) + (counts[7] * unitSize[7].ns) + (counts[8] * unitSize[8].ns)

IsExhaustiveDurationCall ==
    /\ call.op = "DurationFormatter"
    /\ LayoutName(call.Layout) \in DurationNames
    /\ ~IsZero(call.Duration)
    /\ HasDurationUnits(FormatLocale(call.languager))

-----------------------------------------------------------------------------
(***************************************************************************)
(* Claims about the size of the counts of DurationIntervalFormatter.       *)
(***************************************************************************)

\* The count of a unit at which the next larger unit is reached, for the
\* units that have one.
NextUnitCount(unit) ==
    CASE unit \in {"nanosecond", "microsecond", "millisecond"} -> 1000
      [] unit \in {"second", "minute"} -> 60
      [] unit = "hour" -> 24
      [] unit = "day" -> 7
      [] unit = "month" -> 12
      [] OTHER -> 0

\* The largest unit of the call: that of its range, or the century.
MaxUnitOfCall == IF IsRangeCall THEN RangeMax ELSE Century

\* Every count of the call is below the size of the next larger unit, for
\* the units below the largest unit of the call.
CountsBelowNextUnit ==
    \A i \in 1..Len(call.phrases) :
        (/\ NextUnitCount(call.phrases[i][1]) # 0
         /\ IntervalSymbolOf(call.phrases[i][1]) < MaxUnitOfCall) =>
            call.phrases[i][2] < NextUnitCount(call.phrases[i][1])

\* C30: in every mode (exhaustive, approximate, with a range) the counts
\* that DurationIntervalFormatter writes are below the size of the next
\* larger unit in range: rounding up at the minimum or the approximate unit
\* carries into the larger unit.
C30_CountsBelowNextUnit ==
    (IsExhaustiveCall \/ IsApproximateCall \/ IsRangeCall) => CountsBelowNextUnit

\* Without a range the counts are below the size of the next larger unit.
CountsBelowNextUnitWithoutRange ==
    (IsExhaustiveCall \/ IsApproximateCall) => CountsBelowNextUnit

=============================================================================
